---- MODULE Spec2Model ----
(***************************************************************************)
(* Funding-rate mean-reversion signal engine of kraken-trading-app.        *)
(*                                                                         *)
(* Number representation (the source computes in IEEE doubles; the model   *)
(* computes exactly on integers):                                          *)
(*   relativeFundingRate   integer count of 0.0001 (1 is 0.01%)             *)
(*   rates (percent)       relativeFundingRate * 100, same unit            *)
(*   mean                  the pair sum / n                                *)
(*   std                   the pair sqrt(radicand) / n, where              *)
(*                         radicand = n * sum(x^2) - sum(x)^2              *)
(*   zScore                hundredths, truncated toward zero; the          *)
(*                         thresholds 1.8, 2.0, 2.5, 3.0 are multiples of  *)
(*                         0.01, so every comparison with them is exact    *)
(*   edgeScore             hundredths of a point (10000 = 100)             *)
(*   winProbability        1/10000 (8000 = 0.80)                           *)
(*   positionSize, riskAmount   1/30000 of a currency unit                 *)
(*   riskPercent           1/10000                                         *)
(*   stop/target prices    1/1000 of a price unit                          *)
(*   calculateProgress     its arguments are powers of two 2^e, carried as *)
(*                         the exponent e; its results are doubles carried *)
(*                         as (num / den) * 2^exp, Infinity, -Infinity or  *)
(*                         NaN                                             *)
(***************************************************************************)
EXTENDS Integers, Sequences, FiniteSets, TLC

VARIABLES
    pc,              \* which call has run: "ready", "analyzed", "sized", "zscored",
                     \* "probe", "progress", "progressed"
    fundingRates,    \* the caller-supplied FundingRate[] (timestamp, relativeFundingRate)
    lookbackPeriods, \* argument of analyzeAsset / calculateZScore
    currentPrice,    \* argument of analyzeAsset
    analysis,        \* result of analyzeAsset: an Analysis record or NULL
    divByStd,        \* whether the last call evaluated a division by std
    currentRate,     \* argument of calculateZScore
    zResult,         \* result of calculateZScore
    capital,         \* argument of calculatePosition
    riskMode,        \* argument of calculatePosition
    position,        \* result of calculatePosition
    progressArgs,    \* arguments of calculateProgress (current, start, goal)
    progress         \* result of calculateProgress

\* GET /api/funding
VARIABLES
    requested,       \* the symbols to fetch, after the filter on the query parameter
    fetchOutcome,    \* what the exchange does with the fetch of each requested symbol
    tickers,         \* result of getTickers
    taskEntry,       \* per requested symbol: the value its promise settled with, or PENDING
    fundingResponse  \* the JSON answer

\* POST and GET /api/execute
VARIABLES
    env,             \* process.env: KRAKEN_API_KEY and KRAKEN_API_SECRET
    body,            \* the request body of POST
    calls,           \* the calls made to lib/kraken, in order, each with its result
    mainOrder,       \* orderResponse
    stopLossOrder,   \* stopLossOrder
    takeProfitOrder, \* takeProfitOrder
    execResponse     \* the JSON answer

\* analyzeAsset of the /api/funding route
VARIABLES
    localAnalysis    \* result of the route-local analyzeAsset

\* Home of app/page.tsx
VARIABLES
    tradingState,    \* the tradingState of useState
    storage,         \* localStorage: the item 'tradingState', NULL when absent
    updateQueue,     \* the values passed to setTradingState and not yet rendered
    storedBefore,    \* the item as it was before the mount
    homeRiskMode,    \* the riskMode of useState
    homeAnalyses     \* the analyses of useState

\* the variables of the calls of lib/analysis and lib/risk, but for pc
coreVars == <<fundingRates, lookbackPeriods, currentPrice, analysis, divByStd,
              currentRate, zResult, capital, riskMode, position, progressArgs, progress>>

fundingVars == <<requested, fetchOutcome, tickers, taskEntry, fundingResponse>>

executeVars == <<env, body, calls, mainOrder, stopLossOrder, takeProfitOrder,
                 execResponse>>

compareVars == <<localAnalysis>>

homeVars == <<tradingState, storage, updateQueue, storedBefore, homeRiskMode,
             homeAnalyses>>

\* the variables of the route handlers and of the page
otherVars == <<fundingVars, executeVars, compareVars, homeVars>>

vars == <<pc, coreVars, otherVars>>

\* null and NaN are records, so that they compare (unequal) with every result record
NULL == [null |-> TRUE]
NaN == [nan |-> TRUE]
UNDEFINED == "undefined"
PENDING == [pending |-> TRUE]

\* no request to GET /api/funding has been made
FundingIdle ==
    /\ requested = <<>>
    /\ fetchOutcome = <<>>
    /\ tickers = <<>>
    /\ taskEntry = <<>>
    /\ fundingResponse = NULL

\* no request to /api/execute has been made; the environment is empty
ExecuteIdle ==
    /\ env = [apiKey |-> UNDEFINED, apiSecret |-> UNDEFINED]
    /\ body = NULL
    /\ calls = <<>>
    /\ mainOrder = NULL
    /\ stopLossOrder = NULL
    /\ takeProfitOrder = NULL
    /\ execResponse = NULL

\* the route-local analyzeAsset has not run
CompareIdle == localAnalysis = NULL

\* Home is not mounted
HomeIdle ==
    /\ tradingState = NULL
    /\ storage = NULL
    /\ updateQueue = <<>>
    /\ storedBefore = NULL
    /\ homeRiskMode = "MEDIUM"
    /\ homeAnalyses = <<>>

OthersIdle == FundingIdle /\ ExecuteIdle /\ CompareIdle /\ HomeIdle

----------------------------------------------------------------------------
(* Bounds of the model *)

MaxLen == 12        \* longest funding-rate history
TailLen == 2        \* number of freely chosen most-recent samples
MaxRate == 2        \* |relativeFundingRate| of a free sample
ZSteps == 64        \* the probed z-scores reach ZSteps * 0.05 on either side of 0
MaxCapital == 5000  \* largest capital offered to calculatePosition
MaxSpread == 6      \* the ordinary arguments of calculateProgress are 2^0 .. 2^MaxSpread
MaxRequested == 3   \* most tokens in the symbols parameter of GET /api/funding
MaxTrades == 52     \* most paper trades with the default risk mode and a plain signal
ShallowTrades == 10 \* most paper trades with another risk mode or signal

----------------------------------------------------------------------------
(* Arithmetic helpers *)

Abs(x) == IF x < 0 THEN -x ELSE x

Min2(a, b) == IF a <= b THEN a ELSE b

Max2(a, b) == IF a >= b THEN a ELSE b

RECURSIVE GCD(_, _)
GCD(a, b) == IF b = 0 THEN a ELSE GCD(b, a % b)

\* Math.sqrt, truncated to an integer: the largest m in lo..hi with m*m <= x
RECURSIVE ISqrtIn(_, _, _)
ISqrtIn(x, lo, hi) ==
    IF lo >= hi THEN lo
    ELSE LET mid == (lo + hi + 1) \div 2
         IN  IF mid * mid <= x THEN ISqrtIn(x, mid, hi) ELSE ISqrtIn(x, lo, mid - 1)

ISqrt(x) == ISqrtIn(x, 0, Min2(x, 46340))

\* reduce((a, b) => a + b, 0) over s[lo..hi], split in halves
RECURSIVE SumRange(_, _, _)
SumRange(s, lo, hi) ==
    IF lo > hi THEN 0
    ELSE IF lo = hi THEN s[lo]
    ELSE LET mid == (lo + hi) \div 2
         IN  SumRange(s, lo, mid) + SumRange(s, mid + 1, hi)

SumSeq(s) == SumRange(s, 1, Len(s))

\* the sum of Math.pow(v, 2)
SumSq(s) == SumRange([i \in 1..Len(s) |-> s[i] * s[i]], 1, Len(s))

\* Math.max(...s) and Math.min(...s) of a non-empty s
MaxSeq(s) == CHOOSE m \in {s[i] : i \in 1..Len(s)} : \A i \in 1..Len(s) : s[i] <= m

MinSeq(s) == CHOOSE m \in {s[i] : i \in 1..Len(s)} : \A i \in 1..Len(s) : s[i] >= m

\* Array.prototype.slice(-k): the last k elements; slice(-0) is slice(0), the
\* whole array; a negative k gives slice(|k|), the array without its first |k|
SliceLast(s, k) ==
    LET n == Len(s)
        from == IF k > 0 THEN Max2(n - k, 0) ELSE Min2(-k, n)
    IN  SubSeq(s, from + 1, n)

\* [...s].sort((a, b) => a.timestamp - b.timestamp): a stable sort, so the element
\* at index i lands after every element with a smaller timestamp and after the
\* earlier elements with the same timestamp
SortRank(s, i) ==
    1 + Cardinality({ j \in 1..Len(s) :
                        \/ s[j].timestamp < s[i].timestamp
                        \/ (s[j].timestamp = s[i].timestamp /\ j < i) })

SortByTimestamp(s) ==
    LET rank == [i \in 1..Len(s) |-> SortRank(s, i)]
    IN  [k \in 1..Len(s) |-> s[CHOOSE i \in 1..Len(s) : rank[i] = k]]

----------------------------------------------------------------------------
(* Statistics: mean, standard deviation, z-score *)

\* n * sum(x^2) - sum(x)^2 = n^2 * variance (population variance, divide by n)
Radicand(values) == Len(values) * SumSq(values) - SumSeq(values) * SumSeq(values)

\* mean and std of a non-empty sample: mean = sum / n, std = sqrt(radicand) / n
MeanOf(values) == [num |-> SumSeq(values), den |-> Len(values)]

StdOf(values) == [radicand |-> Radicand(values), den |-> Len(values)]

\* (cur - mean) / std in hundredths, truncated toward zero, for std > 0:
\* cur - mean = (n*cur - sum)/n and std = sqrt(radicand)/n, with the same n
ZCenti(cur, mean, std) ==
    LET num == mean.den * cur - mean.num
        p0  == num * num
        q0  == std.radicand
        g   == GCD(p0, q0)
        p   == p0 \div g
        q   == q0 \div g
        x   == 10000 * (p \div q) + (10000 * (p % q)) \div q
    IN  IF num < 0 THEN -ISqrt(x) ELSE ISqrt(x)

----------------------------------------------------------------------------
(* analyzeAsset of lib/analysis.ts *)

SignalTypes == {"ULTRA_LONG", "STRONG_LONG", "LONG", "NEUTRAL",
                "SHORT", "STRONG_SHORT", "ULTRA_SHORT"}

\* rates = sortedRates.map(r => r.relativeFundingRate * 100)
ToPercent(sorted) == [i \in 1..Len(sorted) |-> sorted[i].relativeFundingRate * 100]

\* mutant: the guard reads std >= 0, so the division is evaluated for std = 0 too
\* (0 / 0 is NaN, which crosses no threshold; it stands as 0)
GuardedZScoreAlways(cur, mean, std) ==
    [value |-> IF std.radicand > 0 THEN ZCenti(cur, mean, std) ELSE 0, divided |-> TRUE]

\* zScore = std > 0 ? (currentRate - mean) / std : 0, with whether the division
\* by std was evaluated
GuardedZScore(cur, mean, std) ==
    IF std.radicand > 0
    THEN [value |-> ZCenti(cur, mean, std), divided |-> TRUE]
    ELSE [value |-> 0, divided |-> FALSE]

\* lines 72-85; with an empty lookback std is NaN and std > 0 is false
ZScoreOf(rs, periods) ==
    LET rates == ToPercent(SortByTimestamp(rs))
        lookback == SliceLast(rates, periods)
    IN  IF lookback = <<>> THEN [value |-> 0, divided |-> FALSE]
        ELSE GuardedZScore(rates[Len(rates)], MeanOf(lookback), StdOf(lookback))

\* fundingTrend over the last 6 rates, as the pair num / den (0 when fewer than 2)
FundingTrend(rates) ==
    LET recentRates == SliceLast(rates, 6)
    IN  IF Len(recentRates) >= 2
        THEN [num |-> recentRates[Len(recentRates)] - recentRates[1],
              den |-> Len(recentRates) - 1]
        ELSE [num |-> 0, den |-> 1]

\* mutant: the reversal is declared when the trend runs away from the mean
IsFundingReversingAligned(cur, lookback, trend) ==
    /\ lookback # <<>>
    /\ \/ (Len(lookback) * cur > SumSeq(lookback) /\ trend.num > 0)
       \/ (Len(lookback) * cur < SumSeq(lookback) /\ trend.num < 0)

\* (currentRate > mean && fundingTrend < 0) || (currentRate < mean && fundingTrend > 0);
\* every comparison with a NaN mean (empty lookback) is false
IsFundingReversing(cur, lookback, trend) ==
    /\ lookback # <<>>
    /\ \/ (Len(lookback) * cur > SumSeq(lookback) /\ trend.num < 0)
       \/ (Len(lookback) * cur < SumSeq(lookback) /\ trend.num > 0)

\* mutant: the proximity test compares with the extremes themselves
NearHistoricalExtremeStrict(cur, rates, lookback) ==
    IF rates = <<>> THEN FALSE
    ELSE IF lookback = <<>> THEN TRUE
    ELSE \/ cur > MaxSeq(lookback)
         \/ cur < MinSeq(lookback)

\* currentRate > historicalMax * 0.9 || currentRate < historicalMin * 0.9;
\* Math.max() of nothing is -Infinity and Math.min() of nothing is +Infinity
NearHistoricalExtreme(cur, rates, lookback) ==
    IF rates = <<>> THEN FALSE
    ELSE IF lookback = <<>> THEN TRUE
    ELSE \/ 10 * cur > 9 * MaxSeq(lookback)
         \/ 10 * cur < 9 * MinSeq(lookback)

\* the confirmations counter
Bit(b) == IF b THEN 1 ELSE 0

\* mutant: the four thresholds form one else-if chain and count once
ConfirmationCountElseIf(absZ, reversing, nearExtreme) ==
    Bit(absZ >= 180) + Bit(reversing) + Bit(nearExtreme)

ConfirmationCount(absZ, reversing, nearExtreme) ==
    Bit(absZ >= 180) + Bit(absZ >= 200) + Bit(absZ >= 250) + Bit(absZ >= 300)
    + Bit(reversing) + Bit(nearExtreme)

\* the confirmation details, one per true condition, in evaluation order
ConfirmationDetails(absZ, reversing, nearExtreme) ==
    (IF absZ >= 180 THEN <<"Z-Score">> ELSE <<>>)
    \o (IF absZ >= 200 THEN <<"Above 2s threshold">> ELSE <<>>)
    \o (IF absZ >= 250 THEN <<"Extreme deviation (2.5s+)">> ELSE <<>>)
    \o (IF absZ >= 300 THEN <<"Ultra extreme (3s+)">> ELSE <<>>)
    \o (IF reversing THEN <<"Funding trend reversing">> ELSE <<>>)
    \o (IF nearExtreme THEN <<"Near historical extreme">> ELSE <<>>)

\* mutant: the first row reads zScore > 3.0
ClassifySignalStrict(zScore, confirmations) ==
    IF zScore > 300 /\ confirmations >= 5 THEN "ULTRA_SHORT"
    ELSE IF zScore >= 250 /\ confirmations >= 4 THEN "STRONG_SHORT"
    ELSE IF zScore >= 200 /\ confirmations >= 3 THEN "SHORT"
    ELSE IF zScore >= 180 /\ confirmations >= 2 THEN "SHORT"
    ELSE IF zScore <= -300 /\ confirmations >= 5 THEN "ULTRA_LONG"
    ELSE IF zScore <= -250 /\ confirmations >= 4 THEN "STRONG_LONG"
    ELSE IF zScore <= -200 /\ confirmations >= 3 THEN "LONG"
    ELSE IF zScore <= -180 /\ confirmations >= 2 THEN "LONG"
    ELSE "NEUTRAL"

\* mutant: the LONG side lacks the 1.8 row
ClassifySignalNoWeakLong(zScore, confirmations) ==
    IF zScore >= 300 /\ confirmations >= 5 THEN "ULTRA_SHORT"
    ELSE IF zScore >= 250 /\ confirmations >= 4 THEN "STRONG_SHORT"
    ELSE IF zScore >= 200 /\ confirmations >= 3 THEN "SHORT"
    ELSE IF zScore >= 180 /\ confirmations >= 2 THEN "SHORT"
    ELSE IF zScore <= -300 /\ confirmations >= 5 THEN "ULTRA_LONG"
    ELSE IF zScore <= -250 /\ confirmations >= 4 THEN "STRONG_LONG"
    ELSE IF zScore <= -200 /\ confirmations >= 3 THEN "LONG"
    ELSE "NEUTRAL"

\* mutant: neither side has the 1.8 row
ClassifySignalNoWeakRows(zScore, confirmations) ==
    IF zScore >= 300 /\ confirmations >= 5 THEN "ULTRA_SHORT"
    ELSE IF zScore >= 250 /\ confirmations >= 4 THEN "STRONG_SHORT"
    ELSE IF zScore >= 200 /\ confirmations >= 3 THEN "SHORT"
    ELSE IF zScore <= -300 /\ confirmations >= 5 THEN "ULTRA_LONG"
    ELSE IF zScore <= -250 /\ confirmations >= 4 THEN "STRONG_LONG"
    ELSE IF zScore <= -200 /\ confirmations >= 3 THEN "LONG"
    ELSE "NEUTRAL"

\* mutant: the rows gate on the z-score alone
ClassifyByZOnly(zScore, confirmations) ==
    IF zScore >= 300 THEN "ULTRA_SHORT"
    ELSE IF zScore >= 250 THEN "STRONG_SHORT"
    ELSE IF zScore >= 180 THEN "SHORT"
    ELSE IF zScore <= -300 THEN "ULTRA_LONG"
    ELSE IF zScore <= -250 THEN "STRONG_LONG"
    ELSE IF zScore <= -180 THEN "LONG"
    ELSE "NEUTRAL"

\* lines 133-142
ClassifySignal(zScore, confirmations) ==
    IF zScore >= 300 /\ confirmations >= 5 THEN "ULTRA_SHORT"
    ELSE IF zScore >= 250 /\ confirmations >= 4 THEN "STRONG_SHORT"
    ELSE IF zScore >= 200 /\ confirmations >= 3 THEN "SHORT"
    ELSE IF zScore >= 180 /\ confirmations >= 2 THEN "SHORT"
    ELSE IF zScore <= -300 /\ confirmations >= 5 THEN "ULTRA_LONG"
    ELSE IF zScore <= -250 /\ confirmations >= 4 THEN "STRONG_LONG"
    ELSE IF zScore <= -200 /\ confirmations >= 3 THEN "LONG"
    ELSE IF zScore <= -180 /\ confirmations >= 2 THEN "LONG"
    ELSE "NEUTRAL"

\* mutant: the confirmations are subtracted
EdgeScoreMinus(absZ, confirmations) == Min2(10000, absZ * 15 - confirmations * 1200)

\* mutant: the two weights are exchanged
EdgeScoreSwapped(absZ, confirmations) == Min2(10000, absZ * 12 + confirmations * 1500)

\* Math.min(100, absZ * 15 + confirmations * 12), in hundredths
EdgeScore(absZ, confirmations) == Min2(10000, absZ * 15 + confirmations * 1200)

\* mutant: the final cap at 0.80 is missing
WinProbabilityUncapped(absZ, confirmations, reversing) ==
    5000 + Min2(1500, absZ * 5) + confirmations * 300 + (IF reversing THEN 500 ELSE 0)

\* 0.50 + min(0.15, absZ * 0.05) + confirmations * 0.03 (+ 0.05), capped at 0.80,
\* in 1/10000
WinProbability(absZ, confirmations, reversing) ==
    Min2(8000, 5000 + Min2(1500, absZ * 5) + confirmations * 300
                    + (IF reversing THEN 500 ELSE 0))

\* lines 132-168: the signal, the edge estimate and the returned record
Decide(price, cur, mean, std, zScore, reversing, confirmations, details) ==
    LET absZ == Abs(zScore)
    IN  [symbol |-> "PF_XBTUSD",
         price |-> price,
         currentRate |-> cur,
         mean |-> mean,
         std |-> std,
         zScore |-> zScore,
         signal |-> ClassifySignal(zScore, confirmations),
         confirmations |-> confirmations,
         confirmationDetails |-> details,
         edgeScore |-> EdgeScore(absZ, confirmations),
         winProbability |-> WinProbability(absZ, confirmations, reversing),
         isFundingReversing |-> reversing]

\* mutant: the length test reads <=
InsufficientDataInclusive(rs, periods) == Len(rs) <= periods

\* fundingRates.length < lookbackPeriods
InsufficientData(rs, periods) == Len(rs) < periods

AnalyzeAsset(rs, price, periods) ==
    IF InsufficientData(rs, periods) THEN NULL
    ELSE LET sortedRates == SortByTimestamp(rs)
             rates == ToPercent(sortedRates)
             lookback == SliceLast(rates, periods)
             mean == IF lookback = <<>> THEN NaN ELSE MeanOf(lookback)
             std == IF lookback = <<>> THEN NaN ELSE StdOf(lookback)
             cur == IF rates = <<>> THEN UNDEFINED ELSE rates[Len(rates)]
             zScore == ZScoreOf(rs, periods).value
             reversing == IsFundingReversing(cur, lookback, FundingTrend(rates))
             nearExtreme == NearHistoricalExtreme(cur, rates, lookback)
             confirmations == ConfirmationCount(Abs(zScore), reversing, nearExtreme)
             details == ConfirmationDetails(Abs(zScore), reversing, nearExtreme)
         IN  Decide(price, cur, mean, std, zScore, reversing, confirmations, details)

\* whether analyzeAsset evaluates (currentRate - mean) / std
AnalyzeDivides(rs, periods) ==
    ~InsufficientData(rs, periods) /\ ZScoreOf(rs, periods).divided

----------------------------------------------------------------------------
(* calculatePosition of lib/analysis.ts *)

RiskModes == {"LOW", "MEDIUM", "HIGH", "ULTRA"}

\* risk in 1/1000 of capital, leverage as a plain factor, minZ in hundredths
RISK_PROFILES ==
    [LOW    |-> [risk |-> 20, leverage |-> 3,  minConfirmations |-> 2, minZ |-> 180],
     MEDIUM |-> [risk |-> 30, leverage |-> 5,  minConfirmations |-> 3, minZ |-> 200],
     HIGH   |-> [risk |-> 50, leverage |-> 7,  minConfirmations |-> 4, minZ |-> 250],
     ULTRA  |-> [risk |-> 80, leverage |-> 10, minConfirmations |-> 5, minZ |-> 300]]

\* mutant: the direction test reads signal === 'LONG'
IncludesLONGExact(signal) == signal = "LONG"

\* signal.includes('ULTRA'), signal.includes('STRONG'), signal.includes('LONG')
IncludesULTRA(signal) == signal \in {"ULTRA_LONG", "ULTRA_SHORT"}

IncludesSTRONG(signal) == signal \in {"STRONG_LONG", "STRONG_SHORT"}

IncludesLONG(signal) == signal \in {"ULTRA_LONG", "STRONG_LONG", "LONG"}

\* mutant: the STRONG branch is tested first and matches the ULTRA signals too
RiskMultiplierStrongFirst(signal) ==
    IF IncludesSTRONG(signal) \/ IncludesULTRA(signal) THEN 12 ELSE 10

\* riskMultiplier in tenths
RiskMultiplier(signal) ==
    IF IncludesULTRA(signal) THEN 15 ELSE IF IncludesSTRONG(signal) THEN 12 ELSE 10

\* leverageMultiplier in hundredths
LeverageMultiplier(signal) ==
    IF IncludesULTRA(signal) THEN 130 ELSE IF IncludesSTRONG(signal) THEN 115 ELSE 100

\* Math.min(profile.risk * riskMultiplier, 0.10), in 1/10000
EffectiveRisk(signal, mode) ==
    Min2(RISK_PROFILES[mode].risk * RiskMultiplier(signal), 1000)

\* Math.round(x / 100) for x >= 0: halves round up
RoundHundredths(x) == (x + 50) \div 100

\* Math.min(Math.round(profile.leverage * leverageMultiplier), 15)
EffectiveLeverage(signal, mode) ==
    Min2(RoundHundredths(RISK_PROFILES[mode].leverage * LeverageMultiplier(signal)), 15)

\* money in 1/30000 of a currency unit: capital * effectiveRisk is capital * e / 10000
RiskAmount(cap, signal, mode) == cap * EffectiveRisk(signal, mode) * 3

\* mutant: the stop-loss distance is 15% instead of 1.5%
UncappedPositionSizeWideStop(cap, signal, mode) ==
    (RiskAmount(cap, signal, mode) \div 3) * 20

\* riskAmount / stopLossPercent = riskAmount / 0.015 = riskAmount * 200 / 3
UncappedPositionSize(cap, signal, mode) == (RiskAmount(cap, signal, mode) \div 3) * 200

\* mutant: the 40% cap is missing
PositionSizeUncapped(cap, signal, mode) == UncappedPositionSize(cap, signal, mode)

\* Math.min(positionSize, capital * 0.4), capital * 0.4 being capital * 12000 / 30000
PositionSizeOf(cap, signal, mode) ==
    Min2(UncappedPositionSize(cap, signal, mode), cap * 12000)

CalculatePosition(a, cap, mode) ==
    LET stopLossPercent == 15      \* 0.015, in 1/1000
        takeProfitPercent == stopLossPercent * 2
        isLong == IncludesLONG(a.signal)
    IN  [positionSize |-> PositionSizeOf(cap, a.signal, mode),
         leverage |-> EffectiveLeverage(a.signal, mode),
         riskAmount |-> RiskAmount(cap, a.signal, mode),
         riskPercent |-> EffectiveRisk(a.signal, mode),
         stopLossPercent |-> stopLossPercent,
         takeProfitPercent |-> takeProfitPercent,
         \* prices in 1/1000 of a price unit
         stopLossPrice |-> IF isLong THEN a.price * (1000 - stopLossPercent)
                                     ELSE a.price * (1000 + stopLossPercent),
         takeProfitPrice |-> IF isLong THEN a.price * (1000 + takeProfitPercent)
                                       ELSE a.price * (1000 - takeProfitPercent),
         \* in 1/10000000
         expectedValue |-> a.winProbability * takeProfitPercent
                           - (10000 - a.winProbability) * stopLossPercent]

----------------------------------------------------------------------------
(* calculateStats and calculateZScore of the signals library *)

CalculateStats(values) ==
    IF values = <<>>
    THEN [mean |-> [num |-> 0, den |-> 1], std |-> [radicand |-> 0, den |-> 1]]
    ELSE [mean |-> MeanOf(values), std |-> StdOf(values)]

\* historicalRates.slice(-lookbackPeriods).map(r => r.relativeFundingRate)
ZScoreWindow(historicalRates, periods) ==
    LET w == SliceLast(historicalRates, periods)
    IN  [i \in 1..Len(w) |-> w[i].relativeFundingRate]

\* if (std === 0) return 0; return (currentRate - mean) / std, with whether the
\* division by std was evaluated
ZeroStdGuard(cur, stats) ==
    IF stats.std.radicand = 0
    THEN [value |-> 0, divided |-> FALSE]
    ELSE [value |-> ZCenti(cur, stats.mean, stats.std), divided |-> TRUE]

ZScoreSteps(historicalRates, cur, periods) ==
    IF Len(historicalRates) < 10 THEN [value |-> 0, divided |-> FALSE]
    ELSE ZeroStdGuard(cur, CalculateStats(ZScoreWindow(historicalRates, periods)))

CalculateZScore(historicalRates, cur, periods) ==
    ZScoreSteps(historicalRates, cur, periods).value

----------------------------------------------------------------------------
(* Inputs *)

\* lookbackPeriods: number = 90
DefaultLookback == 90

\* the samples of a history, oldest first: sample i has timestamp i; the older
\* samples all carry the rate base, the TailLen most recent ones are free
AscendingHistory(n, base, tail) ==
    [i \in 1..n |->
        [timestamp |-> i,
         relativeFundingRate |->
            IF i > n - TailLen /\ i - (n - TailLen) \in DOMAIN tail
            THEN tail[i - (n - TailLen)] ELSE base]]

Reverse(s) == [i \in 1..Len(s) |-> s[Len(s) + 1 - i]]

HistoryLengths == {0, 1, 2, 9} \cup (10..MaxLen)

BaseRates == {-1, 0, 1}

FreeRates == (-MaxRate)..MaxRate

\* 90 samples (30 days of 8-hour funding periods), all equal to 0.01%
ConstantHistory == AscendingHistory(DefaultLookback, 1, <<>>)

\* histories whose sixth most recent sample (the first of the trend window) and
\* most recent sample are free, the others carrying the rate base
PivotHistory(n, base, pivot, last) ==
    [i \in 1..n |->
        [timestamp |-> i,
         relativeFundingRate |->
            IF i = n THEN last ELSE IF i = n - 5 THEN pivot ELSE base]]

PivotHistories ==
    { PivotHistory(n, b, p, c) :
        n \in {10, MaxLen}, b \in BaseRates, p \in FreeRates, c \in FreeRates }

Histories ==
    LET asc == { AscendingHistory(n, b, t) :
                    n \in HistoryLengths, b \in BaseRates, t \in [1..TailLen -> FreeRates] }
               \cup PivotHistories
               \cup {ConstantHistory}
    IN  asc \cup { Reverse(h) : h \in asc }

LookbackChoices == {0, 10, 11, DefaultLookback}

Prices == {1, 100}

Capitals == {0, 1, MaxCapital}

\* probed z-scores, in hundredths: a grid of 0.05 and the neighbours of the thresholds
ProbeZScores ==
    { 5 * k : k \in (-ZSteps)..ZSteps }
    \cup { s * (t + d) : s \in {-1, 1}, t \in {180, 200, 250, 300}, d \in {-1, 1} }

----------------------------------------------------------------------------
(* calculateProgress of lib/risk, on arguments that are powers of two 2^e. On    *)
(* these the double arithmetic is exact up to the roundings modelled below:     *)
(* 2^a / 2^b is 2^(a - b), Infinity or 0, and Math.log2 of a power of two is    *)
(* its exponent                                                                 *)

MaxExponent == 1023   \* 2^1023 is the largest power of two that is a finite double
MinExponent == -1074  \* 2^-1074 is the smallest positive double
MantissaBits == 53    \* a double carries 53 significant bits

Finite(num, den, exp) == [kind |-> "finite", num |-> num, den |-> den, exp |-> exp]

PlusInfinity == [kind |-> "Infinity", num |-> 1, den |-> 1, exp |-> 0]

MinusInfinity == [kind |-> "-Infinity", num |-> -1, den |-> 1, exp |-> 0]

NotANumber == [kind |-> "NaN", num |-> 0, den |-> 1, exp |-> 0]

Zero == Finite(0, 1, 0)

One == Finite(1, 1, 0)

FloorLog2(n) == CHOOSE k \in 0..30 : 2^k <= n /\ (k = 30 \/ n < 2^(k + 1))

\* x <= y for doubles x >= 0 and y >= 0; false when either is NaN
LessOrEqual(x, y) ==
    /\ x.kind # "NaN" /\ y.kind # "NaN"
    /\ IF y.kind = "Infinity" THEN TRUE
       ELSE IF x.kind = "Infinity" THEN FALSE
       ELSE IF x.num <= 0 THEN TRUE
       ELSE IF y.num <= 0 THEN FALSE
       ELSE LET a == x.num * y.den
                b == y.num * x.den
                d == x.exp - y.exp
            IN  IF d >= 31 THEN FALSE
                ELSE IF d <= -31 THEN TRUE
                ELSE IF d >= 0 THEN a * 2^d <= b
                ELSE a <= b * 2^(-d)

\* the double 2^a - 2^b as m * 2^e: exact while the difference fits the mantissa,
\* otherwise the smaller power is below half an ulp of the larger and is lost
Pow2Minus(a, b) ==
    IF a = b THEN [m |-> 0, e |-> 0]
    ELSE LET hi == Max2(a, b)
             lo == Min2(a, b)
             sign == IF a > b THEN 1 ELSE -1
         IN  IF hi - lo > MantissaBits THEN [m |-> sign, e |-> hi]
             ELSE [m |-> sign * (2^(hi - lo) - 1), e |-> lo]

\* the double n / d for d > 0, kept as the exact quotient it rounds (rounding keeps
\* the order); a quotient of at most 2^-1075 rounds to 0
Quotient(n, d) ==
    IF n.m = 0 THEN Zero
    ELSE LET fn == FloorLog2(Abs(n.m))
             fd == FloorLog2(d.m)
             order == fn - fd + (n.e - d.e)
         IN  IF \/ order < MinExponent - 1
                \/ (order = MinExponent - 1 /\ Abs(n.m) * 2^fd <= d.m * 2^fn)
             THEN Zero
             ELSE Finite(n.m, d.m, n.e - d.e)

\* Math.log2(2^a / 2^b): the quotient overflows to Infinity above 2^1023 and
\* rounds to 0 below 2^-1074
Log2OfRatio(a, b) ==
    IF a - b > MaxExponent THEN PlusInfinity
    ELSE IF a - b < MinExponent THEN MinusInfinity
    ELSE Finite(a - b, 1, 0)

\* completedDoublings / totalDoublings for totalDoublings > 0
DivideDoublings(completed, total) ==
    IF completed.kind # "finite" /\ total.kind # "finite" THEN NotANumber
    ELSE IF total.kind = "Infinity" THEN Zero
    ELSE IF completed.kind # "finite" THEN completed
    ELSE Finite(completed.num, total.num, 0)

\* totalDoublings - completedDoublings
SubtractDoublings(total, completed) ==
    IF total.kind = "finite" /\ completed.kind = "finite"
    THEN Finite(total.num - completed.num, 1, 0)
    ELSE IF total.kind = "finite"
    THEN (IF completed.kind = "Infinity" THEN MinusInfinity ELSE PlusInfinity)
    ELSE IF completed.kind = total.kind THEN NotANumber
    ELSE total

\* Math.max(0, Math.min(1, x)); both return NaN for a NaN argument
Clamp01(x) ==
    IF x.kind = "NaN" THEN NotANumber
    ELSE IF x.kind = "Infinity" THEN One
    ELSE IF x.kind = "-Infinity" THEN Zero
    ELSE IF x.num <= 0 THEN Zero
    ELSE IF LessOrEqual(One, x) THEN One
    ELSE x

\* calculateProgress(2^current, 2^start, 2^goal) for start < goal
CalculateProgress(current, start, goal) ==
    LET linearProgress == Quotient(Pow2Minus(current, start), Pow2Minus(goal, start))
        totalDoublings == Log2OfRatio(goal, start)
        completedDoublings == Log2OfRatio(current, start)
        logProgress == DivideDoublings(completedDoublings, totalDoublings)
    IN  [linearProgress |-> Clamp01(linearProgress),
         logProgress |-> Clamp01(logProgress),
         doublings |-> completedDoublings,
         doublingsRemaining |-> SubtractDoublings(totalDoublings, completedDoublings)]

\* the exponents offered: ordinary magnitudes, and magnitudes far apart
OrdinaryExponents == 0..MaxSpread

StartExponents == OrdinaryExponents \cup {-600}

GoalExponents == OrdinaryExponents \cup {600, 1000}

CurrentExponents == OrdinaryExponents \cup {MinExponent, -600, 600, 1000}

----------------------------------------------------------------------------
(* The calls *)

Init ==
    /\ pc = "ready"
    /\ fundingRates \in Histories
    /\ lookbackPeriods = 0
    /\ currentPrice = 0
    /\ analysis = NULL
    /\ divByStd = FALSE
    /\ currentRate = 0
    /\ zResult = 0
    /\ capital = 0
    /\ riskMode = "LOW"
    /\ position = NULL
    /\ progressArgs = NULL
    /\ progress = NULL
    /\ OthersIdle

\* mutant: the samples are sorted in place, without the copy [...fundingRates]
AnalyzeAssetCallInPlace ==
    /\ pc = "ready"
    /\ \E periods \in LookbackChoices, price \in Prices :
          /\ lookbackPeriods' = periods
          /\ currentPrice' = price
          /\ analysis' = AnalyzeAsset(fundingRates, price, periods)
          /\ divByStd' = AnalyzeDivides(fundingRates, periods)
    /\ pc' = "analyzed"
    /\ fundingRates' = SortByTimestamp(fundingRates)
    /\ UNCHANGED <<currentRate, zResult, capital, riskMode, position>>
    /\ UNCHANGED <<progressArgs, progress>>
    /\ UNCHANGED otherVars

\* analyzeAsset(symbol, fundingRates, currentPrice, lookbackPeriods)
AnalyzeAssetCall ==
    /\ pc = "ready"
    /\ \E periods \in LookbackChoices, price \in Prices :
          /\ lookbackPeriods' = periods
          /\ currentPrice' = price
          /\ analysis' = AnalyzeAsset(fundingRates, price, periods)
          /\ divByStd' = AnalyzeDivides(fundingRates, periods)
    /\ pc' = "analyzed"
    /\ UNCHANGED <<fundingRates, currentRate, zResult, capital, riskMode, position>>
    /\ UNCHANGED <<progressArgs, progress>>
    /\ UNCHANGED otherVars

\* calculatePosition(analysis, capital, riskMode) on a non-null analysis
CalculatePositionCall ==
    /\ pc = "analyzed"
    /\ analysis # NULL
    /\ \E cap \in Capitals, mode \in RiskModes :
          /\ capital' = cap
          /\ riskMode' = mode
          /\ position' = CalculatePosition(analysis, cap, mode)
    /\ pc' = "sized"
    /\ UNCHANGED <<fundingRates, lookbackPeriods, currentPrice, analysis, divByStd,
                   currentRate, zResult, progressArgs, progress>>
    /\ UNCHANGED otherVars

\* calculateZScore(historicalRates, currentRate, lookbackPeriods)
CalculateZScoreCall ==
    /\ pc = "ready"
    /\ \E periods \in LookbackChoices, cur \in FreeRates :
          /\ lookbackPeriods' = periods
          /\ currentRate' = cur
          /\ zResult' = CalculateZScore(fundingRates, cur, periods)
          /\ divByStd' = ZScoreSteps(fundingRates, cur, periods).divided
    /\ pc' = "zscored"
    /\ UNCHANGED <<fundingRates, currentPrice, analysis, capital, riskMode, position,
                   progressArgs, progress>>
    /\ UNCHANGED otherVars

Next == AnalyzeAssetCall \/ CalculatePositionCall \/ CalculateZScoreCall

Spec == Init /\ [][Next]_vars

----------------------------------------------------------------------------
(* The classifier and the edge estimate on their own: lines 132-168 of           *)
(* analyzeAsset applied to every z-score, confirmation count and reversal flag, *)
(* followed by calculatePosition on the record they return                      *)

ProbeInit ==
    /\ pc = "probe"
    /\ fundingRates = <<>>
    /\ lookbackPeriods = 0
    /\ currentPrice = 0
    /\ analysis = NULL
    /\ divByStd = FALSE
    /\ currentRate = 0
    /\ zResult = 0
    /\ capital = 0
    /\ riskMode = "LOW"
    /\ position = NULL
    /\ progressArgs = NULL
    /\ progress = NULL
    /\ OthersIdle

ClassifyCall ==
    /\ pc = "probe"
    /\ \E z \in ProbeZScores, c \in 0..6, reversing \in BOOLEAN, price \in Prices :
          /\ currentPrice' = price
          /\ analysis' = Decide(price, UNDEFINED, UNDEFINED, UNDEFINED,
                                z, reversing, c, UNDEFINED)
    /\ pc' = "analyzed"
    /\ UNCHANGED <<fundingRates, lookbackPeriods, divByStd, currentRate, zResult,
                   capital, riskMode, position, progressArgs, progress>>
    /\ UNCHANGED otherVars

ProbeNext == ClassifyCall \/ CalculatePositionCall

ProbeSpec == ProbeInit /\ [][ProbeNext]_vars

----------------------------------------------------------------------------
(* calculateProgress on its own *)

ProgressInit ==
    /\ pc = "progress"
    /\ fundingRates = <<>>
    /\ lookbackPeriods = 0
    /\ currentPrice = 0
    /\ analysis = NULL
    /\ divByStd = FALSE
    /\ currentRate = 0
    /\ zResult = 0
    /\ capital = 0
    /\ riskMode = "LOW"
    /\ position = NULL
    /\ progressArgs = NULL
    /\ progress = NULL
    /\ OthersIdle

\* calculateProgress(current, start, goal) with 0 < start < goal and current > 0
CalculateProgressCall ==
    /\ pc = "progress"
    /\ \E start \in StartExponents, goal \in GoalExponents, current \in CurrentExponents :
          /\ start < goal
          /\ progressArgs' = [current |-> current, start |-> start, goal |-> goal]
          /\ progress' = CalculateProgress(current, start, goal)
    /\ pc' = "progressed"
    /\ UNCHANGED <<fundingRates, lookbackPeriods, currentPrice, analysis, divByStd,
                   currentRate, zResult, capital, riskMode, position>>
    /\ UNCHANGED otherVars

ProgressNext == CalculateProgressCall

ProgressSpec == ProgressInit /\ [][ProgressNext]_vars

----------------------------------------------------------------------------
(* GET /api/funding, the Promise.all variant: one async task per requested      *)
(* symbol, started together; the fetches complete in any order                  *)

\* the calls of lib/analysis and lib/risk are not made
CoreIdle ==
    /\ fundingRates = <<>>
    /\ lookbackPeriods = 0
    /\ currentPrice = 0
    /\ analysis = NULL
    /\ divByStd = FALSE
    /\ currentRate = 0
    /\ zResult = 0
    /\ capital = 0
    /\ riskMode = "LOW"
    /\ position = NULL
    /\ progressArgs = NULL
    /\ progress = NULL

\* Object.keys(FUTURES_SYMBOLS), the first of them
AllSymbols == <<"BTC", "ETH", "SOL">>

FuturesSymbols == { AllSymbols[i] : i \in 1..Len(AllSymbols) }

\* a property name every object literal inherits from Object.prototype
PrototypeKeys == {"constructor"}

\* the tokens of the symbols parameter: supported symbols and an unsupported one
Tokens == FuturesSymbols \cup {"XYZ"}

\* searchParams.get('symbols'): absent (or empty), or split at the commas
SymbolParams ==
    {[present |-> FALSE, tokens |-> <<>>]}
    \cup { [present |-> TRUE, tokens |-> t] :
             t \in UNION { [1..n -> Tokens] : n \in 1..MaxRequested } }

FetchOutcomes == {"throws", "empty", "short", "success"}

\* what the exchange returns per outcome: nothing, no rate, fewer than 90, 90
RatesOf(outcome) ==
    IF outcome = "success" THEN ConstantHistory
    ELSE IF outcome = "short" THEN PivotHistory(10, 0, 1, 2)
    ELSE <<>>

\* getTickers: {} when the fetch fails, otherwise a ticker per symbol
TickerPrice == 100

TickerOutcomes ==
    { <<>>, [sym \in FuturesSymbols |-> [symbol |-> sym, price |-> TickerPrice]] }

\* analyzeAsset(symbol, fundingRates, price) with the default lookback, tabulated
\* over the non-empty rates the exchange returns and the prices the tickers give
AnalysisTable ==
    [outcome \in {"short", "success"} |->
        [price \in {0, TickerPrice} |->
            AnalyzeAsset(RatesOf(outcome), price, DefaultLookback)]]

\* symbolsParam ? symbolsParam.split(',').filter(s => FUTURES_SYMBOLS[s])
\*              : Object.keys(FUTURES_SYMBOLS)
\* FUTURES_SYMBOLS is an object literal: FUTURES_SYMBOLS[s] is also truthy for a
\* name it inherits from Object.prototype
IsSupported(sym) == sym \in FuturesSymbols \cup PrototypeKeys

RequestedSymbols(param) ==
    IF param.present THEN SelectSeq(param.tokens, IsSupported) ELSE AllSymbols

\* getHistoricalFundingRates: [] for an unknown symbol, a thrown fetch (caught at
\* line 107) and an unsuccessful answer, otherwise data.rates
GetHistoricalFundingRates(sym, outcome) ==
    IF ~IsSupported(sym) THEN <<>>
    ELSE IF outcome = "throws" THEN <<>>
    ELSE RatesOf(outcome)

\* lines 216-238: the value of the promise of one symbol; ...analysis is carried
\* in the field analysis
FundingTask(sym, outcome, tk) ==
    LET rates == GetHistoricalFundingRates(sym, outcome)
        price == IF sym \in DOMAIN tk THEN tk[sym].price ELSE 0
    IN  IF Len(rates) = 0
        THEN [symbol |-> sym, error |-> "No funding data available"]
        ELSE LET result == AnalysisTable[outcome][price]
             IN  IF result = NULL
                 THEN [symbol |-> sym, error |-> "Insufficient data for analysis"]
                 ELSE [symbol |-> sym,
                       analysis |-> result,
                       ticker |-> IF sym \in DOMAIN tk THEN tk[sym] ELSE NULL,
                       fundingHistory |-> SliceLast(rates, 30)]

\* 'error' in a
HasError(a) == "error" \in DOMAIN a

HasNoError(a) == ~HasError(a)

\* mutant: one failed symbol fails the whole batch
FundingResponseFailFast(analyses) ==
    IF SelectSeq(analyses, HasError) # <<>>
    THEN [success |-> FALSE, status |-> 500, data |-> <<>>, errors |-> <<>>]
    ELSE [success |-> TRUE, status |-> 200, data |-> analyses, errors |-> <<>>]

\* lines 243-251; errors is undefined when nothing failed, here the empty sequence
FundingResponse(analyses) ==
    [success |-> TRUE,
     status |-> 200,
     data |-> SelectSeq(analyses, HasNoError),
     errors |-> SelectSeq(analyses, HasError)]

FundingInit ==
    /\ pc = "funding"
    /\ CoreIdle
    /\ OthersIdle

\* what a step of GET /api/funding leaves alone
FundingFrame == UNCHANGED <<coreVars, executeVars, compareVars, homeVars>>

\* lines 201-215: the symbols are determined, the tickers awaited and every task
\* started; each task runs up to its await of the fetch
FundingGet ==
    /\ pc = "funding"
    /\ \E param \in SymbolParams, tk \in TickerOutcomes :
          /\ requested' = RequestedSymbols(param)
          /\ tickers' = tk
          /\ \E oc \in [1..Len(RequestedSymbols(param)) -> FetchOutcomes] :
                fetchOutcome' = oc
          /\ taskEntry' = [i \in 1..Len(RequestedSymbols(param)) |-> PENDING]
    /\ pc' = "funding_await"
    /\ UNCHANGED fundingResponse
    /\ FundingFrame

\* the fetch of one pending task completes and the task runs to its return
FundingSettle ==
    /\ pc = "funding_await"
    /\ \E i \in 1..Len(requested) :
          /\ taskEntry[i] = PENDING
          /\ taskEntry' = [taskEntry EXCEPT
                             ![i] = FundingTask(requested[i], fetchOutcome[i], tickers)]
    /\ UNCHANGED <<pc, requested, fetchOutcome, tickers, fundingResponse>>
    /\ FundingFrame

\* Promise.all resolves when every task has settled; the answer is built
FundingRespond ==
    /\ pc = "funding_await"
    /\ \A i \in 1..Len(requested) : taskEntry[i] # PENDING
    /\ fundingResponse' = FundingResponse(taskEntry)
    /\ pc' = "funding_done"
    /\ UNCHANGED <<requested, fetchOutcome, tickers, taskEntry>>
    /\ FundingFrame

FundingNext == FundingGet \/ FundingSettle \/ FundingRespond

FundingSpec == FundingInit /\ [][FundingNext]_vars

----------------------------------------------------------------------------
(* POST and GET /api/execute: the handler runs up to its next await, the       *)
(* exchange answers, the handler resumes                                        *)

\* a string, or a number, that is truthy in a condition: neither undefined nor
\* "", not 0
Truthy(v) == v \notin {UNDEFINED, ""}

TruthyNumber(n) == n # 0

\* the values of an environment variable: unset, set to the empty string, set
EnvValues == {UNDEFINED, "", "secret"}

Environments == [apiKey : EnvValues, apiSecret : EnvValues]

\* the request bodies: a field that is absent is "" or 0; a limit order carries
\* its limit price
Bodies ==
    { [symbol |-> sym, side |-> side, size |-> size, orderType |-> ot,
       limitPrice |-> (IF ot = "lmt" THEN 100 ELSE 0),
       stopLoss |-> sl, takeProfit |-> tp] :
         sym \in {"", "BTC", "XYZ", "constructor"},
         side \in {"", "buy", "sell", "hold"},
         size \in {0, 2},
         ot \in {"", "mkt", "lmt"},
         sl \in {0, 95},
         tp \in {0, 110} }

\* a body that request.json() cannot parse
INVALID_JSON == [invalidJson |-> TRUE]

\* what the exchange answers to sendorder: accepted with an order id, accepted
\* without sendStatus, refused
OrderAnswers ==
    { [result |-> "success", sendStatus |-> [order_id |-> "id-1", status |-> "placed"]],
      [result |-> "success", sendStatus |-> NULL],
      [result |-> "error", sendStatus |-> NULL] }

\* a fetch that throws: getAccountBalance and placeOrder rethrow
THROWS == [throws |-> TRUE]

BalanceAnswers == { [result |-> "success"], [result |-> "error"] }

\* POST line 25: !apiKey || !apiSecret
NotConfiguredAll(e) == ~Truthy(e.apiKey) /\ ~Truthy(e.apiSecret)
NotConfigured(e) == ~Truthy(e.apiKey) \/ ~Truthy(e.apiSecret)

\* GET line 151: Boolean(apiKey && apiSecret)
IsConfigured(e) == Truthy(e.apiKey) /\ Truthy(e.apiSecret)

\* the answers of POST
ErrorResponse(status, error) ==
    [kind |-> "POST", status |-> status, success |-> FALSE, error |-> error,
     mode |-> UNDEFINED]

PaperResponse ==
    [kind |-> "POST", status |-> 400, success |-> FALSE,
     error |-> "Trading not configured", mode |-> "paper"]

ExecuteFailed == ErrorResponse(500, "Order execution failed")

\* lines 40-61: the error of the first validation that fails, NULL when all pass
ValidationError(b) ==
    IF ~Truthy(b.symbol) \/ ~Truthy(b.side) \/ ~TruthyNumber(b.size)
          \/ ~Truthy(b.orderType)
    THEN ErrorResponse(400, "Missing required fields")
    ELSE IF ~IsSupported(b.symbol) THEN ErrorResponse(400, "Invalid symbol")
    ELSE IF b.side \notin {"buy", "sell"} THEN ErrorResponse(400, "Side must be buy or sell")
    ELSE NULL

\* the calls of lib/kraken as the route makes them
BalanceCall == [fn |-> "getAccountBalance", result |-> PENDING]

MainOrderCall(b) ==
    [fn |-> "placeOrder", symbol |-> b.symbol, side |-> b.side, size |-> b.size,
     orderType |-> b.orderType, limitPrice |-> b.limitPrice, stopPrice |-> 0,
     reduceOnly |-> FALSE, result |-> PENDING]

OppositeSide(side) == IF side = "buy" THEN "sell" ELSE "buy"

StopLossCall(b) ==
    [fn |-> "placeOrder", symbol |-> b.symbol, side |-> OppositeSide(b.side),
     size |-> b.size, orderType |-> "stp", limitPrice |-> 0, stopPrice |-> b.stopLoss,
     reduceOnly |-> TRUE, result |-> PENDING]

TakeProfitCall(b) ==
    [fn |-> "placeOrder", symbol |-> b.symbol, side |-> OppositeSide(b.side),
     size |-> b.size, orderType |-> "take_profit", limitPrice |-> b.takeProfit,
     stopPrice |-> 0, reduceOnly |-> TRUE, result |-> PENDING]

\* orderResponse.sendStatus?.order_id
OrderIdOf(order) ==
    IF order.sendStatus = NULL THEN UNDEFINED ELSE order.sendStatus.order_id

\* x?.result === 'success' ? x.sendStatus : null
SendStatusOf(order) ==
    IF order # NULL /\ order.result = "success" THEN order.sendStatus ELSE NULL

\* lines 120-132
SuccessResponse(b, order, stop, target) ==
    [kind |-> "POST", status |-> 200, success |-> TRUE,
     order |-> [id |-> OrderIdOf(order), symbol |-> b.symbol, side |-> b.side,
                size |-> b.size, type |-> b.orderType,
                status |-> (IF order.sendStatus = NULL THEN UNDEFINED
                            ELSE order.sendStatus.status)],
     stopLoss |-> SendStatusOf(stop), takeProfit |-> SendStatusOf(target)]

\* the last call gets its result
Returned(log, answer) ==
    [log EXCEPT ![Len(log)].result = IF answer = THROWS THEN "throws" ELSE answer.result]

ExecuteInit ==
    /\ pc = "execute"
    /\ CoreIdle
    /\ FundingIdle
    /\ CompareIdle
    /\ HomeIdle
    /\ env \in Environments
    /\ body = NULL
    /\ calls = <<>>
    /\ mainOrder = NULL
    /\ stopLossOrder = NULL
    /\ takeProfitOrder = NULL
    /\ execResponse = NULL

\* what a step of /api/execute leaves alone
ExecuteFrame == UNCHANGED <<coreVars, fundingVars, compareVars, homeVars, env>>

\* the handler answers; log is the calls made
Answer(log, response) ==
    /\ calls' = log
    /\ execResponse' = response
    /\ pc' = "execute_done"

\* the handler makes a call and awaits it
Await(log, call, at) ==
    /\ calls' = Append(log, call)
    /\ pc' = at
    /\ UNCHANGED execResponse

\* POST, lines 20-66: up to the call of getAccountBalance
ExecutePost ==
    /\ pc = "execute"
    /\ \E b \in Bodies \cup {INVALID_JSON} :
          /\ body' = b
          /\ IF NotConfigured(env) THEN Answer(calls, PaperResponse)
             ELSE IF b = INVALID_JSON THEN Answer(calls, ExecuteFailed)
             ELSE IF ValidationError(b) # NULL THEN Answer(calls, ValidationError(b))
             ELSE Await(calls, BalanceCall, "execute_balance")
    /\ UNCHANGED <<mainOrder, stopLossOrder, takeProfitOrder>>
    /\ ExecuteFrame

\* lines 66-82: getAccountBalance has answered or thrown; the main order is sent
ExecuteBalanceReturns ==
    /\ pc = "execute_balance"
    /\ \E answer \in BalanceAnswers \cup {THROWS} :
          LET log == Returned(calls, answer)
          IN  IF answer = THROWS THEN Answer(log, ExecuteFailed)
              ELSE IF answer.result # "success"
              THEN Answer(log, ErrorResponse(400, "Failed to verify account balance"))
              ELSE Await(log, MainOrderCall(body), "execute_main")
    /\ UNCHANGED <<body, mainOrder, stopLossOrder, takeProfitOrder>>
    /\ ExecuteFrame

\* lines 75-132: the main order has answered or thrown; the stop-loss, else the
\* take-profit, is sent when it is asked for and the order has an id
ExecuteMainReturns ==
    /\ pc = "execute_main"
    /\ \E answer \in OrderAnswers \cup {THROWS} :
          LET log == Returned(calls, answer)
          IN  IF answer = THROWS
              THEN Answer(log, ExecuteFailed) /\ UNCHANGED mainOrder
              ELSE /\ mainOrder' = answer
                   /\ IF answer.result # "success"
                      THEN Answer(log, ErrorResponse(400, "Order placement failed"))
                      ELSE IF TruthyNumber(body.stopLoss) /\ Truthy(OrderIdOf(answer))
                      THEN Await(log, StopLossCall(body), "execute_stop")
                      ELSE IF TruthyNumber(body.takeProfit) /\ Truthy(OrderIdOf(answer))
                      THEN Await(log, TakeProfitCall(body), "execute_target")
                      ELSE Answer(log, SuccessResponse(body, answer, NULL, NULL))
    /\ UNCHANGED <<body, stopLossOrder, takeProfitOrder>>
    /\ ExecuteFrame

\* lines 95-132: the stop-loss order has answered or thrown
ExecuteStopReturns ==
    /\ pc = "execute_stop"
    /\ \E answer \in OrderAnswers \cup {THROWS} :
          LET log == Returned(calls, answer)
          IN  IF answer = THROWS
              THEN Answer(log, ExecuteFailed) /\ UNCHANGED stopLossOrder
              ELSE /\ stopLossOrder' = answer
                   /\ IF TruthyNumber(body.takeProfit) /\ Truthy(OrderIdOf(mainOrder))
                      THEN Await(log, TakeProfitCall(body), "execute_target")
                      ELSE Answer(log, SuccessResponse(body, mainOrder, answer, NULL))
    /\ UNCHANGED <<body, mainOrder, takeProfitOrder>>
    /\ ExecuteFrame

\* lines 109-132: the take-profit order has answered or thrown
ExecuteTargetReturns ==
    /\ pc = "execute_target"
    /\ \E answer \in OrderAnswers \cup {THROWS} :
          LET log == Returned(calls, answer)
          IN  IF answer = THROWS
              THEN Answer(log, ExecuteFailed) /\ UNCHANGED takeProfitOrder
              ELSE /\ takeProfitOrder' = answer
                   /\ Answer(log, SuccessResponse(body, mainOrder, stopLossOrder, answer))
    /\ UNCHANGED <<body, mainOrder, stopLossOrder>>
    /\ ExecuteFrame

\* GET, lines 147-160
ExecuteGet ==
    /\ pc = "execute"
    /\ execResponse' = [kind |-> "GET", status |-> 200,
                        tradingEnabled |-> IsConfigured(env),
                        mode |-> (IF IsConfigured(env) THEN "live" ELSE "paper")]
    /\ pc' = "execute_done"
    /\ UNCHANGED <<body, calls, mainOrder, stopLossOrder, takeProfitOrder>>
    /\ ExecuteFrame

ExecuteNext ==
    \/ ExecutePost
    \/ ExecuteGet
    \/ ExecuteBalanceReturns
    \/ ExecuteMainReturns
    \/ ExecuteStopReturns
    \/ ExecuteTargetReturns

ExecuteSpec == ExecuteInit /\ [][ExecuteNext]_vars

----------------------------------------------------------------------------
(* The two analyzeAsset implementations on the same samples: lib/analysis.ts    *)
(* with the default lookback and the local one of the /api/funding route, which *)
(* sorts its argument in place                                                   *)

\* n samples in ascending timestamp order, the last k at the rate recent and the
\* others at the rate base
TwoLevelHistory(n, k, base, recent) ==
    [i \in 1..n |->
        [timestamp |-> i,
         relativeFundingRate |-> IF i > n - k THEN recent ELSE base]]

\* with 90 samples the z-score is sqrt((90 - k) / k): 3.0 for k = 9, 2.0 for k = 18
LongHistories ==
    LET levels == {<<1, 2>>, <<2, 1>>, <<-2, -1>>, <<-1, -2>>}
        asc == { TwoLevelHistory(DefaultLookback, k, r[1], r[2]) :
                    k \in {0, 9, 10, 13, 18, 19, 22}, r \in levels }
               \cup { TwoLevelHistory(DefaultLookback + 1, k, r[1], r[2]) :
                    k \in {9, 18}, r \in levels }
               \cup {TwoLevelHistory(DefaultLookback - 1, 9, 1, 2)}
    IN  asc \cup { Reverse(h) : h \in asc }

\* route.ts lines 96-100: the four threshold confirmations
RouteConfirmationCount(absZ) ==
    Bit(absZ >= 180) + Bit(absZ >= 200) + Bit(absZ >= 250) + Bit(absZ >= 300)

\* mutant: the rows of the route ask for the confirmations lib/analysis.ts asks for
RouteClassifySignalAsLib(zScore, confirmations) ==
    IF zScore >= 300 /\ confirmations >= 5 THEN "ULTRA_SHORT"
    ELSE IF zScore >= 250 /\ confirmations >= 4 THEN "STRONG_SHORT"
    ELSE IF zScore >= 200 /\ confirmations >= 3 THEN "SHORT"
    ELSE IF zScore <= -300 /\ confirmations >= 5 THEN "ULTRA_LONG"
    ELSE IF zScore <= -250 /\ confirmations >= 4 THEN "STRONG_LONG"
    ELSE IF zScore <= -200 /\ confirmations >= 3 THEN "LONG"
    ELSE "NEUTRAL"

\* route.ts lines 102-107
RouteClassifySignal(zScore, confirmations) ==
    IF zScore >= 300 /\ confirmations >= 4 THEN "ULTRA_SHORT"
    ELSE IF zScore >= 250 /\ confirmations >= 3 THEN "STRONG_SHORT"
    ELSE IF zScore >= 200 /\ confirmations >= 2 THEN "SHORT"
    ELSE IF zScore <= -300 /\ confirmations >= 4 THEN "ULTRA_LONG"
    ELSE IF zScore <= -250 /\ confirmations >= 3 THEN "STRONG_LONG"
    ELSE IF zScore <= -200 /\ confirmations >= 2 THEN "LONG"
    ELSE "NEUTRAL"

\* route.ts lines 122-126
RouteConfirmationDetails(absZ) ==
    (IF absZ >= 200 THEN <<"Z-Score">> ELSE <<>>)
    \o (IF absZ >= 250 THEN <<"Extreme deviation">> ELSE <<>>)
    \o (IF absZ >= 300 THEN <<"Ultra extreme">> ELSE <<>>)

\* route.ts lines 86-133, on the sorted rates in percent
RouteAnalyzeValues(values, price) ==
    LET lookback == SliceLast(values, 90)
        mean == MeanOf(lookback)
        std == StdOf(lookback)
        cur == values[Len(values)]
        zScore == IF std.radicand > 0 THEN ZCenti(cur, mean, std) ELSE 0
        absZ == Abs(zScore)
        confirmations == RouteConfirmationCount(absZ)
    IN  [symbol |-> "PF_XBTUSD",
         price |-> price,
         currentRate |-> cur,
         mean |-> mean,
         std |-> std,
         zScore |-> zScore,
         signal |-> RouteClassifySignal(zScore, confirmations),
         confirmations |-> confirmations,
         confirmationDetails |-> RouteConfirmationDetails(absZ),
         edgeScore |-> Min2(10000, absZ * 15 + confirmations * 1200),
         winProbability |-> Min2(8000, 5000 + Min2(1500, absZ * 5)
                                         + confirmations * 300),
         isFundingReversing |-> FALSE]

\* route.ts lines 79-134; the rates are sorted once
RouteAnalyzeAsset(rs, price) ==
    IF Len(rs) < 90 THEN NULL
    ELSE CHOOSE result \in { RouteAnalyzeValues(values, price) :
                               values \in {ToPercent(SortByTimestamp(rs))} } : TRUE

CompareInit ==
    /\ pc = "compare"
    /\ fundingRates \in LongHistories
    /\ lookbackPeriods = DefaultLookback
    /\ currentPrice = TickerPrice
    /\ analysis = NULL
    /\ divByStd = FALSE
    /\ currentRate = 0
    /\ zResult = 0
    /\ capital = 0
    /\ riskMode = "LOW"
    /\ position = NULL
    /\ progressArgs = NULL
    /\ progress = NULL
    /\ FundingIdle
    /\ ExecuteIdle
    /\ CompareIdle
    /\ HomeIdle

CompareFrame ==
    UNCHANGED <<lookbackPeriods, currentPrice, divByStd, currentRate, zResult, capital,
                riskMode, position, progressArgs, progress, fundingVars, executeVars,
                homeVars>>

\* analyzeAsset of lib/analysis.ts, called first or second
LibAnalyzeCall ==
    /\ pc \in {"compare", "compare_local"}
    /\ analysis' = AnalyzeAsset(fundingRates, currentPrice, lookbackPeriods)
    /\ pc' = IF pc = "compare" THEN "compare_lib" ELSE "compared"
    /\ UNCHANGED <<fundingRates, localAnalysis>>
    /\ CompareFrame

\* analyzeAsset of the route, called first or second; rates.sort sorts the caller's
\* array
LocalAnalyzeCall ==
    /\ pc \in {"compare", "compare_lib"}
    /\ localAnalysis' = RouteAnalyzeAsset(fundingRates, currentPrice)
    /\ fundingRates' = IF Len(fundingRates) < 90 THEN fundingRates
                       ELSE SortByTimestamp(fundingRates)
    /\ pc' = IF pc = "compare" THEN "compare_local" ELSE "compared"
    /\ UNCHANGED analysis
    /\ CompareFrame

CompareNext == LibAnalyzeCall \/ LocalAnalyzeCall

CompareSpec == CompareInit /\ [][CompareNext]_vars

----------------------------------------------------------------------------
(* Home of app/page.tsx: the mount with its load and save effects, then paper   *)
(* trades. Money is in 1/100 of a currency unit, rounded down                    *)

\* lines 66-70: the initial tradingState
DefaultTradingState ==
    [capital |-> 500000,
     trades |-> <<>>,
     stats |-> [totalTrades |-> 0, wins |-> 0, losses |-> 0, totalPnL |-> 0]]

\* line 162: .slice(0, 50)
TradesKept == 50

\* JSON.stringify and JSON.parse: the state holds finite numbers, strings, booleans
\* and arrays of them, which the text carries unchanged
Stringify(state) == [json |-> state]

Parse(text) == text.json

\* a state saved by an earlier session: 51 trades, the 50 newest kept
SavedState ==
    [capital |-> 485000,
     trades |-> [i \in 1..TradesKept |->
                   [id |-> 52 - i, symbol |-> "BTC", direction |-> "LONG"]],
     stats |-> [totalTrades |-> 51, wins |-> 20, losses |-> 31, totalPnL |-> -15000]]

\* localStorage.getItem('tradingState') before the mount
StoredValues == {NULL, Stringify(SavedState)}

\* lines 49-54, risk in 1/1000
HomeRiskProfiles ==
    [LOW    |-> [risk |-> 20, leverage |-> 3],
     MEDIUM |-> [risk |-> 30, leverage |-> 5],
     HIGH   |-> [risk |-> 50, leverage |-> 7],
     ULTRA  |-> [risk |-> 80, leverage |-> 10]]

\* lines 126-131: Math.min(profile.risk * riskMultiplier, 0.10), in 1/10000
HomeEffectiveRisk(signal, mode) ==
    LET riskMultiplier == IF IncludesULTRA(signal) THEN 15
                          ELSE IF IncludesSTRONG(signal) THEN 12 ELSE 10
    IN  Min2(HomeRiskProfiles[mode].risk * riskMultiplier, 1000)

\* line 132: tradingState.capital * effectiveRisk
HomeRiskAmount(cap, signal, mode) ==
    LET r == HomeEffectiveRisk(signal, mode)
    IN  (cap \div 10000) * r + ((cap % 10000) * r) \div 10000

\* lines 147-149
PnL(riskAmount, isWin) == IF isWin THEN riskAmount * 2 ELSE -riskAmount

\* lines 151-158; Date.now() is the number of the trade
Trade(a, now) ==
    [id |-> now, symbol |-> a.symbol,
     direction |-> IF IncludesLONG(a.signal) THEN "LONG" ELSE "SHORT"]

SliceFirst(seq, k) == SubSeq(seq, 1, Min2(k, Len(seq)))

\* mutant: every trade is counted as a loss
PaperTradeUpdaterAllLosses(prev, trade, pnl, isWin) ==
    [capital |-> prev.capital + pnl,
     trades |-> SliceFirst(<<trade>> \o prev.trades, TradesKept),
     stats |-> [totalTrades |-> prev.stats.totalTrades + 1,
                wins |-> prev.stats.wins + (IF isWin THEN 1 ELSE 0),
                losses |-> prev.stats.losses + 1,
                totalPnL |-> prev.stats.totalPnL + pnl]]

\* lines 160-170: the updater passed to setTradingState
PaperTradeUpdater(prev, trade, pnl, isWin) ==
    [capital |-> prev.capital + pnl,
     trades |-> SliceFirst(<<trade>> \o prev.trades, TradesKept),
     stats |-> [totalTrades |-> prev.stats.totalTrades + 1,
                wins |-> prev.stats.wins + (IF isWin THEN 1 ELSE 0),
                losses |-> prev.stats.losses + (IF isWin THEN 0 ELSE 1),
                totalPnL |-> prev.stats.totalPnL + pnl]]

\* the analyses /api/funding may show: one asset, with its signal
ShownAnalyses ==
    { [symbol |-> "BTC", signal |-> sig, winProbability |-> 6500] :
        sig \in {"NEUTRAL", "LONG", "STRONG_SHORT", "ULTRA_LONG"} }

\* lines 73-78: the load effect, queueing the value it passes to setTradingState
LoadEffect(item, queue) ==
    IF item # NULL THEN Append(queue, Parse(item)) ELSE queue

\* lines 81-83: the save effect, of the render whose tradingState is state
SaveEffect(state) == Stringify(state)

HomeInit ==
    /\ pc = "home"
    /\ CoreIdle
    /\ FundingIdle
    /\ ExecuteIdle
    /\ CompareIdle
    /\ tradingState = DefaultTradingState
    /\ storage \in StoredValues
    /\ storedBefore = storage
    /\ updateQueue = <<>>
    /\ homeRiskMode = "MEDIUM"
    /\ homeAnalyses = <<>>

HomeFrame == UNCHANGED <<coreVars, fundingVars, executeVars, compareVars, storedBefore>>

\* the effects of the first commit, in the order of their declaration: load, then
\* save with the tradingState of the first render. Under React Strict Mode (the
\* development build) the effects of a mount run a second time before the queued
\* updates are rendered
MountEffects ==
    /\ pc = "home"
    /\ \E strict \in BOOLEAN :
          LET queued == LoadEffect(storage, updateQueue)
              saved == SaveEffect(tradingState)
          IN  IF strict
              THEN /\ updateQueue' = LoadEffect(saved, queued)
                   /\ storage' = SaveEffect(tradingState)
              ELSE /\ updateQueue' = queued
                   /\ storage' = saved
    /\ pc' = "home_rerender"
    /\ UNCHANGED <<tradingState, homeRiskMode, homeAnalyses>>
    /\ HomeFrame

\* the re-render the queued updates ask for: the last value passed to
\* setTradingState becomes the state, and the save effect runs for the new state
Rerender ==
    /\ pc = "home_rerender"
    /\ IF updateQueue # <<>>
       THEN /\ tradingState' = updateQueue[Len(updateQueue)]
            /\ storage' = SaveEffect(updateQueue[Len(updateQueue)])
       ELSE UNCHANGED <<tradingState, storage>>
    /\ updateQueue' = <<>>
    /\ pc' = "home_ready"
    /\ UNCHANGED <<homeRiskMode, homeAnalyses>>
    /\ HomeFrame

\* lines 94-113: fetchData stores the analyses of /api/funding
FetchData ==
    /\ pc = "home_ready"
    /\ homeAnalyses = <<>>
    /\ \E a \in ShownAnalyses : homeAnalyses' = <<a>>
    /\ UNCHANGED <<pc, tradingState, storage, updateQueue, homeRiskMode>>
    /\ HomeFrame

\* line 249: the risk mode is chosen before the first trade
SetRiskMode ==
    /\ pc = "home_ready"
    /\ tradingState.stats.totalTrades = 0
    /\ \E mode \in RiskModes :
          /\ mode # homeRiskMode
          /\ homeRiskMode' = mode
    /\ UNCHANGED <<pc, tradingState, storage, updateQueue, homeAnalyses>>
    /\ HomeFrame

\* the number of trades explored for the risk mode and the signal shown
TradeLimit(signal, mode) ==
    IF mode = "MEDIUM" /\ signal = "LONG" THEN MaxTrades ELSE ShallowTrades

\* lines 144-172: a click on the button of an actionable analysis; the update is
\* rendered and the save effect runs before the next event
ExecutePaperTrade ==
    /\ pc = "home_ready"
    /\ \E i \in DOMAIN homeAnalyses, isWin \in BOOLEAN :
          LET a == homeAnalyses[i]
              riskAmount == HomeRiskAmount(tradingState.capital, a.signal, homeRiskMode)
              trade == Trade(a, tradingState.stats.totalTrades + 1)
              next == PaperTradeUpdater(tradingState, trade, PnL(riskAmount, isWin), isWin)
          IN  /\ a.signal # "NEUTRAL"
              /\ tradingState.stats.totalTrades < TradeLimit(a.signal, homeRiskMode)
              /\ tradingState' = next
              /\ storage' = SaveEffect(next)
    /\ UNCHANGED <<pc, updateQueue, homeRiskMode, homeAnalyses>>
    /\ HomeFrame

HomeNext ==
    \/ MountEffects
    \/ Rerender
    \/ FetchData
    \/ SetRiskMode
    \/ ExecutePaperTrade

HomeSpec == HomeInit /\ [][HomeNext]_vars

----------------------------------------------------------------------------
(* Properties *)

Analyzed == pc \in {"analyzed", "sized"} /\ analysis # NULL

\* the classification table as rows (lower bound on z or upper bound on z,
\* least confirmation count, signal), most extreme first
SignalTable ==
    << [side |-> 1,  z |-> 300, c |-> 5, signal |-> "ULTRA_SHORT"],
       [side |-> 1,  z |-> 250, c |-> 4, signal |-> "STRONG_SHORT"],
       [side |-> 1,  z |-> 200, c |-> 3, signal |-> "SHORT"],
       [side |-> 1,  z |-> 180, c |-> 2, signal |-> "SHORT"],
       [side |-> -1, z |-> 300, c |-> 5, signal |-> "ULTRA_LONG"],
       [side |-> -1, z |-> 250, c |-> 4, signal |-> "STRONG_LONG"],
       [side |-> -1, z |-> 200, c |-> 3, signal |-> "LONG"],
       [side |-> -1, z |-> 180, c |-> 2, signal |-> "LONG"] >>

RowMatches(row, z, c) == row.side * z >= row.z /\ c >= row.c

FirstMatchingRow(z, c) ==
    LET hits == { i \in DOMAIN SignalTable : RowMatches(SignalTable[i], z, c) }
    IN  IF hits = {} THEN "NEUTRAL"
        ELSE SignalTable[CHOOSE i \in hits : \A j \in hits : i <= j].signal

Mirror(signal) ==
    CASE signal = "ULTRA_SHORT"  -> "ULTRA_LONG"
      [] signal = "STRONG_SHORT" -> "STRONG_LONG"
      [] signal = "SHORT"        -> "LONG"
      [] signal = "LONG"         -> "SHORT"
      [] signal = "STRONG_LONG"  -> "STRONG_SHORT"
      [] signal = "ULTRA_LONG"   -> "ULTRA_SHORT"
      [] OTHER                   -> signal

\* C2: the classifier is anti-symmetric: the signal for (z, c) is the mirror of the
\* signal for (-z, c)
C2_AntiSymmetric ==
    Analyzed =>
        analysis.signal = Mirror(ClassifySignal(-analysis.zScore, analysis.confirmations))

C2_Witness ==
    /\ pc = "analyzed"
    /\ analysis # NULL
    /\ analysis.zScore = -181
    /\ analysis.confirmations = 2
    /\ analysis.signal = "LONG"
    /\ ClassifySignal(181, 2) = "SHORT"

C4_PositionAndLeverageCaps ==
    pc = "sized" =>
        /\ position.positionSize <= 12000 * capital
        /\ position.leverage <= 15

C4_Witness ==
    /\ pc = "sized"
    /\ capital = MaxCapital
    /\ riskMode = "ULTRA"
    /\ analysis.signal = "ULTRA_SHORT"
    /\ position.positionSize = 12000 * capital
    /\ position.leverage = 13

\* C5: winProbability lies in [0.50, 0.80] and edgeScore in [0, 100]
C5_EstimateBounds ==
    Analyzed =>
        /\ analysis.winProbability >= 5000
        /\ analysis.winProbability <= 8000
        /\ analysis.edgeScore >= 0
        /\ analysis.edgeScore <= 10000

C5_Witness ==
    /\ pc = "analyzed"
    /\ analysis # NULL
    /\ analysis.confirmations = 6
    /\ analysis.isFundingReversing
    /\ analysis.winProbability = 8000
    /\ analysis.edgeScore = 10000

\* C6: edgeScore and winProbability do not decrease when |z| grows (confirmations
\* and reversal flag fixed) nor when confirmations grow (|z| and flag fixed)
C6_Monotone ==
    Analyzed =>
        /\ \A z2 \in ProbeZScores :
              Abs(z2) >= Abs(analysis.zScore) =>
                 /\ EdgeScore(Abs(z2), analysis.confirmations) >= analysis.edgeScore
                 /\ WinProbability(Abs(z2), analysis.confirmations,
                                   analysis.isFundingReversing) >= analysis.winProbability
        /\ \A c2 \in 0..6 :
              c2 >= analysis.confirmations =>
                 /\ EdgeScore(Abs(analysis.zScore), c2) >= analysis.edgeScore
                 /\ WinProbability(Abs(analysis.zScore), c2,
                                   analysis.isFundingReversing) >= analysis.winProbability

C6_Witness ==
    /\ pc = "analyzed"
    /\ analysis # NULL
    /\ analysis.zScore = -200
    /\ analysis.confirmations = 3
    /\ EdgeScore(250, 3) > analysis.edgeScore
    /\ EdgeScore(200, 4) > analysis.edgeScore
    /\ WinProbability(200, 4, analysis.isFundingReversing) > analysis.winProbability

\* C7: analyzeAsset returns null exactly when fundingRates.length < lookbackPeriods,
\* and otherwise an Analysis whose signal is one of the seven classes
C7_NullIffInsufficient ==
    pc = "analyzed" =>
        /\ (analysis = NULL) <=> (Len(fundingRates) < lookbackPeriods)
        /\ analysis # NULL => analysis.signal \in SignalTypes

C7_Witness ==
    /\ pc = "analyzed"
    /\ Len(fundingRates) = 9
    /\ lookbackPeriods = 10
    /\ analysis = NULL

\* the z-score over exactly the last min(lookback, N) samples, 0 for fewer than 10
\* samples and for a zero standard deviation
LastSamples(s, k) == SubSeq(s, Len(s) - Min2(k, Len(s)) + 1, Len(s))

ZScoreOverLastMin(historicalRates, cur, periods) ==
    IF Len(historicalRates) < 10 THEN 0
    ELSE LET w == LastSamples(historicalRates, periods)
             values == [i \in 1..Len(w) |-> w[i].relativeFundingRate]
         IN  IF values = <<>> \/ Radicand(values) = 0 THEN 0
             ELSE ZCenti(cur, MeanOf(values), StdOf(values))

\* C8: calculateZScore returns 0 for fewer than 10 samples and otherwise, for every
\* lookback size, the z-score over exactly the last min(lookback, N) samples;
\* calculateStats of an empty sequence is (0, 0)
C8_LastMinLookbackSamples ==
    /\ CalculateStats(<<>>).mean.num = 0
    /\ CalculateStats(<<>>).std.radicand = 0
    /\ pc = "zscored" =>
          zResult = ZScoreOverLastMin(fundingRates, currentRate, lookbackPeriods)

ConstantCase ==
    /\ pc = "analyzed"
    /\ fundingRates \in {ConstantHistory, Reverse(ConstantHistory)}
    /\ lookbackPeriods = DefaultLookback

ShortSide == {"SHORT", "STRONG_SHORT", "ULTRA_SHORT"}

LongSide == {"LONG", "STRONG_LONG", "ULTRA_LONG"}

\* C10: a non-NEUTRAL signal has |z| >= 1.8 and at least 2 confirmations, a STRONG
\* one |z| >= 2.5 and at least 4, an ULTRA one |z| >= 3.0 and at least 5; a
\* SHORT-side signal has z > 0 and a LONG-side signal z < 0
C10_DualGate ==
    (pc = "analyzed" /\ analysis # NULL) =>
        LET z == analysis.zScore
            c == analysis.confirmations
            sig == analysis.signal
        IN  /\ sig # "NEUTRAL" => (Abs(z) >= 180 /\ c >= 2)
            /\ IncludesSTRONG(sig) => (Abs(z) >= 250 /\ c >= 4)
            /\ IncludesULTRA(sig) => (Abs(z) >= 300 /\ c >= 5)
            /\ sig \in ShortSide => z > 0
            /\ sig \in LongSide => z < 0

C10_Witness ==
    /\ pc = "analyzed"
    /\ analysis # NULL
    /\ analysis.zScore <= -300
    /\ analysis.confirmations = 4
    /\ analysis.signal = "STRONG_LONG"

\* C11: edgeScore = min(100, |z| * 15 + confirmations * 12) and winProbability =
\* min(0.80, 0.50 + min(0.15, |z| * 0.05) + confirmations * 0.03 + 0.05 if
\* reversing); z = 3.0 with 5 confirmations gives edgeScore = 100
C11_EdgeFormulas ==
    Analyzed =>
        LET absZ == IF analysis.zScore < 0 THEN -analysis.zScore ELSE analysis.zScore
            c == analysis.confirmations
            rawEdge == absZ * 15 + c * 1200
            zPart == IF absZ * 5 > 1500 THEN 1500 ELSE absZ * 5
            rawWin == 5000 + zPart + c * 300
                      + (IF analysis.isFundingReversing THEN 500 ELSE 0)
        IN  /\ analysis.edgeScore = (IF rawEdge > 10000 THEN 10000 ELSE rawEdge)
            /\ analysis.winProbability = (IF rawWin > 8000 THEN 8000 ELSE rawWin)
            /\ (absZ = 300 /\ c = 5) => analysis.edgeScore = 10000

C11_Witness ==
    /\ pc = "analyzed"
    /\ analysis # NULL
    /\ analysis.zScore = 300
    /\ analysis.confirmations = 5
    /\ ~analysis.isFundingReversing
    /\ analysis.edgeScore = 10000
    /\ analysis.winProbability = 8000

\* the expected effective risk (1/10000) and leverage per profile, for a plain, a
\* STRONG and an ULTRA signal
ExpectedRisk ==
    [LOW    |-> <<200, 240, 300>>,
     MEDIUM |-> <<300, 360, 450>>,
     HIGH   |-> <<500, 600, 750>>,
     ULTRA  |-> <<800, 960, 1000>>]

ExpectedLeverage ==
    [LOW    |-> <<3, 3, 4>>,
     MEDIUM |-> <<5, 6, 7>>,
     HIGH   |-> <<7, 8, 9>>,
     ULTRA  |-> <<10, 12, 13>>]

Strength(signal) ==
    IF signal \in {"ULTRA_LONG", "ULTRA_SHORT"} THEN 3
    ELSE IF signal \in {"STRONG_LONG", "STRONG_SHORT"} THEN 2
    ELSE 1

\* C12: the multipliers are (1.5, 1.3) for ULTRA, (1.2, 1.15) for STRONG and (1, 1)
\* otherwise; riskPercent = min(risk * multiplier, 0.10), leverage =
\* min(round(leverage * multiplier), 15), riskAmount = capital * riskPercent; capital
\* 5000, MEDIUM, STRONG_LONG give 0.036, 180, positionSize 2000 and leverage 6
C12_RiskAndLeverage ==
    pc = "sized" =>
        /\ position.riskPercent = ExpectedRisk[riskMode][Strength(analysis.signal)]
        /\ position.leverage = ExpectedLeverage[riskMode][Strength(analysis.signal)]
        /\ position.riskAmount = capital * position.riskPercent * 3
        /\ (capital = 5000 /\ riskMode = "MEDIUM" /\ analysis.signal = "STRONG_LONG")
              => /\ position.riskPercent = 360
                 /\ position.riskAmount = 180 * 30000
                 /\ position.positionSize = 2000 * 30000
                 /\ position.leverage = 6

C12_Witness ==
    /\ pc = "sized"
    /\ capital = 5000
    /\ riskMode = "MEDIUM"
    /\ analysis.signal = "STRONG_LONG"
    /\ position.riskPercent = 360
    /\ position.riskAmount = 180 * 30000
    /\ position.positionSize = 2000 * 30000
    /\ position.leverage = 6

\* C13: for a positive price, stopLossPrice < price < takeProfitPrice on the LONG
\* side and takeProfitPrice < price < stopLossPrice on the SHORT side, the stop 1.5%
\* and the target 3% away from the price
C13_StopAndTarget ==
    (pc = "sized" /\ analysis.price > 0) =>
        LET price == analysis.price * 1000
            stopDistance == analysis.price * 15
            targetDistance == analysis.price * 30
        IN  /\ analysis.signal \in LongSide =>
                  /\ position.stopLossPrice < price
                  /\ price < position.takeProfitPrice
                  /\ price - position.stopLossPrice = stopDistance
                  /\ position.takeProfitPrice - price = targetDistance
            /\ analysis.signal \in ShortSide =>
                  /\ position.takeProfitPrice < price
                  /\ price < position.stopLossPrice
                  /\ position.stopLossPrice - price = stopDistance
                  /\ price - position.takeProfitPrice = targetDistance

C13_Witness ==
    /\ pc = "sized"
    /\ analysis.signal = "STRONG_LONG"
    /\ analysis.price = 100
    /\ position.stopLossPrice = 98500
    /\ position.takeProfitPrice = 103000

\* the lookback window of the analysed samples, in percent
AnalysisWindow ==
    LET rates == ToPercent(SortByTimestamp(fundingRates))
    IN  SliceLast(rates, lookbackPeriods)

\* the six confirmation conditions of an analysis over the window w, in
\* evaluation order
ConfirmationConditions(w) ==
    LET absZ == IF analysis.zScore < 0 THEN -analysis.zScore ELSE analysis.zScore
    IN  << absZ >= 180, absZ >= 200, absZ >= 250, absZ >= 300,
           analysis.isFundingReversing,
           /\ w # <<>>
           /\ \/ 10 * analysis.currentRate > 9 * MaxSeq(w)
              \/ 10 * analysis.currentRate < 9 * MinSeq(w) >>

ConfirmationLabels ==
    << "Z-Score", "Above 2s threshold", "Extreme deviation (2.5s+)",
       "Ultra extreme (3s+)", "Funding trend reversing", "Near historical extreme" >>

TrueUpTo(conds, i) == Cardinality({ j \in 1..i : conds[j] })

\* C14: confirmations is the number of true conditions among |z| >= 1.8, |z| >= 2.0,
\* |z| >= 2.5, |z| >= 3.0, funding reversing and near historical extreme, so it lies
\* in 0..6 and |z| >= 3.0 contributes 4; confirmationDetails has exactly
\* confirmations entries, one per true condition in evaluation order
C14_ConfirmationCount ==
    (pc = "analyzed" /\ analysis # NULL) =>
        \A w \in {AnalysisWindow} : \A conds \in {ConfirmationConditions(w)} :
        LET details == analysis.confirmationDetails
        IN  /\ analysis.confirmations = TrueUpTo(conds, 6)
            /\ analysis.confirmations \in 0..6
            /\ conds[4] => (TrueUpTo(conds, 4) = 4 /\ analysis.confirmations >= 4)
            /\ Len(details) = analysis.confirmations
            /\ \A i \in 1..6 : conds[i] => details[TrueUpTo(conds, i)] = ConfirmationLabels[i]

C14_Witness ==
    /\ pc = "analyzed"
    /\ analysis # NULL
    /\ analysis.zScore >= 300
    /\ analysis.confirmations = 5
    /\ analysis.confirmationDetails =
          << "Z-Score", "Above 2s threshold", "Extreme deviation (2.5s+)",
             "Ultra extreme (3s+)", "Near historical extreme" >>

\* the rate in percent of the sample with exactly k - 1 samples of greater timestamp
RateByAge(k) ==
    LET i == CHOOSE i \in 1..Len(fundingRates) :
                Cardinality({ j \in 1..Len(fundingRates) :
                    fundingRates[j].timestamp > fundingRates[i].timestamp }) = k - 1
    IN  fundingRates[i].relativeFundingRate * 100

\* (last - first) / (n - 1) over the most recent up-to-6 samples, 0 for fewer than 2
RecentTrend ==
    LET n == IF Len(fundingRates) < 6 THEN Len(fundingRates) ELSE 6
    IN  IF n < 2 THEN [num |-> 0, den |-> 1]
        ELSE [num |-> RateByAge(1) - RateByAge(n), den |-> n - 1]

\* C15: the trend is (last - first) / (n - 1) over the most recent up-to-6 samples
\* (0 when fewer than 2), and isFundingReversing is true exactly when (currentRate >
\* mean and trend < 0) or (currentRate < mean and trend > 0); it is false whenever
\* currentRate equals the mean or the trend is 0
C15_FundingReversal ==
    IF fundingRates = <<>>
    THEN (pc = "analyzed" /\ analysis # NULL) => ~analysis.isFundingReversing
    ELSE (pc = "analyzed" /\ analysis # NULL) =>
        LET cur == analysis.currentRate
            mean == analysis.mean
            trend == RecentTrend
            above == cur * mean.den > mean.num
            below == cur * mean.den < mean.num
        IN  /\ cur = RateByAge(1)
            /\ analysis.isFundingReversing <=>
                  ((above /\ trend.num < 0) \/ (below /\ trend.num > 0))
            /\ (cur * mean.den = mean.num \/ trend.num = 0)
                  => ~analysis.isFundingReversing
            /\ Len(fundingRates) < 2 => (trend.num = 0 /\ ~analysis.isFundingReversing)

C15_Witness ==
    /\ pc = "analyzed"
    /\ analysis # NULL
    /\ fundingRates # <<>>
    /\ analysis.isFundingReversing
    /\ analysis.currentRate * analysis.mean.den > analysis.mean.num
    /\ RecentTrend.num < 0

\* C16: the "Near historical extreme" confirmation is counted whenever the current
\* rate equals the maximum or the minimum of the lookback window, for windows of any
\* sign
C16_ExtremeCounted ==
    (Analyzed /\ fundingRates # <<>>) =>
        LET w == AnalysisWindow
            cur == analysis.currentRate
            details == analysis.confirmationDetails
        IN  (cur = MaxSeq(w) \/ cur = MinSeq(w)) =>
                \E i \in 1..Len(details) : details[i] = "Near historical extreme"

\* C18: analyzeAsset leaves the caller-supplied fundingRates sequence unchanged,
\* whether it returns null or a result: same elements in the same order
C18_SamplesUnchanged ==
    [][(pc = "ready" /\ pc' = "analyzed") => fundingRates' = fundingRates]_vars

\* an analysis of samples supplied in descending timestamp order
C18_Witness ==
    /\ pc = "analyzed"
    /\ analysis # NULL
    /\ Len(fundingRates) >= 10
    /\ fundingRates[1].timestamp > fundingRates[2].timestamp
    /\ fundingRates # SortByTimestamp(fundingRates)

\* the k samples of greatest timestamp, in percent and ascending timestamp order
GreatestTimestamps(k) == [i \in 1..k |-> RateByAge(k - i + 1)]

\* C19: the statistics are those of the lookbackPeriods samples with the greatest
\* timestamps, the current rate is that of the sample with the greatest timestamp,
\* and the samples supplied in another order give the same mean, std, zScore,
\* isFundingReversing, confirmations and signal
C19_GreatestTimestampWindow ==
    (Analyzed /\ fundingRates # <<>>) =>
        LET w == GreatestTimestamps(lookbackPeriods)
            other == AnalyzeAsset(Reverse(fundingRates), currentPrice, lookbackPeriods)
        IN  /\ analysis.currentRate = RateByAge(1)
            /\ analysis.mean = (IF w = <<>> THEN NaN ELSE MeanOf(w))
            /\ analysis.std = (IF w = <<>> THEN NaN ELSE StdOf(w))
            /\ other.mean = analysis.mean
            /\ other.std = analysis.std
            /\ other.zScore = analysis.zScore
            /\ other.isFundingReversing = analysis.isFundingReversing
            /\ other.confirmations = analysis.confirmations
            /\ other.signal = analysis.signal

\* (2^c - 2^s) / (2^g - 2^s) and (c - s) / (g - s), the exact values of the two
\* quotients for arguments 2^c, 2^s, 2^g with s < c < g
ExactLinear(c, s, g) ==
    IF g - s <= 2 * MaxSpread THEN Finite(2^(c - s) - 1, 2^(g - s) - 1, 0)
    ELSE IF c - s <= 2 * MaxSpread THEN Finite(2^(c - s) - 1, 1, s - g)
    ELSE Finite(1, 1, c - g)

ExactLog(c, s, g) == Finite(c - s, g - s, 0)

SameValue(x, y) == LessOrEqual(x, y) /\ LessOrEqual(y, x)

\* C20: for 0 < start < goal and current > 0, linearProgress is
\* clamp((current - start) / (goal - start), 0, 1) and logProgress is
\* clamp(log2(current / start) / log2(goal / start), 0, 1): both lie in [0, 1],
\* both are 0 for current <= start, both are 1 for current >= goal, and both are
\* non-decreasing in current
C20_ProgressClamped ==
    pc = "progressed" =>
        LET c == progressArgs.current
            s == progressArgs.start
            g == progressArgs.goal
            lin == progress.linearProgress
            log == progress.logProgress
        IN  /\ LessOrEqual(Zero, lin) /\ LessOrEqual(lin, One)
            /\ LessOrEqual(Zero, log) /\ LessOrEqual(log, One)
            /\ c <= s => (SameValue(lin, Zero) /\ SameValue(log, Zero))
            /\ c >= g => (SameValue(lin, One) /\ SameValue(log, One))
            /\ (s < c /\ c < g) =>
                  /\ SameValue(log, ExactLog(c, s, g))
                  /\ lin.num # 0 => SameValue(lin, ExactLinear(c, s, g))
            /\ \A c2 \in CurrentExponents :
                  c2 >= c =>
                     /\ LessOrEqual(lin, CalculateProgress(c2, s, g).linearProgress)
                     /\ LessOrEqual(log, CalculateProgress(c2, s, g).logProgress)

\* the entries of the answer, data first
ResponseEntries == fundingResponse.data \o fundingResponse.errors

Distinct(seq) == \A i, j \in 1..Len(seq) : seq[i] = seq[j] => i = j

\* C21: for every set of requested supported symbols and every combination of
\* per-symbol outcomes, the answer is success:true, each requested symbol appears
\* exactly once, in data or in errors, and its entry depends on its own outcome
\* only, whatever the other outcomes and the order in which the fetches complete
C21_BatchIsolation ==
    (pc = "funding_done" /\ Distinct(requested)) =>
        /\ fundingResponse.success
        /\ fundingResponse.status = 200
        /\ Len(ResponseEntries) = Len(requested)
        /\ \A i \in 1..Len(requested) :
              LET sym == requested[i]
                  at == { j \in 1..Len(ResponseEntries) : ResponseEntries[j].symbol = sym }
                  inData == { j \in 1..Len(fundingResponse.data) :
                                fundingResponse.data[j].symbol = sym }
              IN  /\ sym \in FuturesSymbols
                  /\ Cardinality(at) = 1
                  /\ \A j \in at :
                        ResponseEntries[j] = FundingTask(sym, fetchOutcome[i], tickers)
                  /\ (fetchOutcome[i] = "success") <=> (inData # {})
                  /\ \A j \in inData : ~HasError(fundingResponse.data[j])

C21_Witness ==
    /\ pc = "funding_done"
    /\ requested = <<"SOL", "BTC", "ETH">>
    /\ fetchOutcome = <<"throws", "success", "short">>
    /\ Len(fundingResponse.data) = 1
    /\ fundingResponse.data[1].symbol = "BTC"
    /\ Len(fundingResponse.errors) = 2

\* an environment variable that is not set to a non-empty value
Unset(v) == v \in {UNDEFINED, ""}

PaperEnv == Unset(env.apiKey) \/ Unset(env.apiSecret)

\* C22: when KRAKEN_API_KEY or KRAKEN_API_SECRET is unset, POST /api/execute calls
\* neither getAccountBalance nor placeOrder, whatever the body, and answers 400 with
\* success false and mode paper; GET answers tradingEnabled false and mode paper;
\* tradingEnabled is true exactly when both variables are set
C22_PaperModeByDefault ==
    /\ PaperEnv => calls = <<>>
    /\ (pc = "execute_done" /\ execResponse.kind = "POST" /\ PaperEnv) =>
          /\ execResponse.status = 400
          /\ execResponse.success = FALSE
          /\ execResponse.mode = "paper"
    /\ (pc = "execute_done" /\ execResponse.kind = "GET") =>
          /\ execResponse.tradingEnabled <=> ~PaperEnv
          /\ PaperEnv => execResponse.mode = "paper"

\* a complete order request answered in paper mode: only the secret is missing
C22_Witness ==
    /\ pc = "execute_done"
    /\ env = [apiKey |-> "secret", apiSecret |-> UNDEFINED]
    /\ body # INVALID_JSON
    /\ body.symbol = "BTC" /\ body.side = "buy" /\ body.size = 2
    /\ body.orderType = "mkt" /\ body.stopLoss = 95
    /\ execResponse.kind = "POST"
    /\ execResponse.mode = "paper"
    /\ calls = <<>>

\* the request passed validation: the four fields are present, the symbol is one of
\* the supported symbols, the side is buy or sell
PassedValidation(b) ==
    /\ b # INVALID_JSON
    /\ b.symbol # "" /\ b.side # "" /\ b.size # 0 /\ b.orderType # ""
    /\ b.symbol \in FuturesSymbols
    /\ b.side \in {"buy", "sell"}

IsMainOrder(call) == call.fn = "placeOrder" /\ call.orderType \notin {"stp", "take_profit"}

IsProtection(call, type) == call.fn = "placeOrder" /\ call.orderType = type

\* C24: the main order is placed only after the request passed validation and
\* getAccountBalance returned success; the stop-loss and the take-profit order are
\* placed only after the main order returned success with an order id, at most once
\* each, on the opposite side, with the same size and reduceOnly set
C24_OrderingOfCalls ==
    \A k \in DOMAIN calls :
        /\ IsMainOrder(calls[k]) =>
              /\ PassedValidation(body)
              /\ \E j \in 1..(k - 1) :
                    calls[j].fn = "getAccountBalance" /\ calls[j].result = "success"
        /\ \A type \in {"stp", "take_profit"} :
              IsProtection(calls[k], type) =>
                 /\ \E j \in 1..(k - 1) :
                       /\ IsMainOrder(calls[j])
                       /\ calls[j].result = "success"
                       /\ calls[j].side = OppositeSide(calls[k].side)
                       /\ calls[j].side # calls[k].side
                       /\ calls[j].size = calls[k].size
                 /\ mainOrder # NULL
                 /\ mainOrder.sendStatus # NULL
                 /\ calls[k].reduceOnly
                 /\ \A j \in DOMAIN calls : IsProtection(calls[j], type) => j = k

\* C25: whenever POST /api/execute answers success false, the main order has not
\* returned success
C25_NoAcceptedOrderOnFailure ==
    (pc = "execute_done" /\ execResponse.kind = "POST" /\ ~execResponse.success) =>
        \A k \in DOMAIN calls : IsMainOrder(calls[k]) => calls[k].result # "success"

\* C23: a z-score strictly between -2.0 and +2.0 gives the NEUTRAL signal, whatever
\* the confirmation count
C23_NeutralBand ==
    (pc = "analyzed" /\ analysis # NULL
        /\ analysis.zScore > -200 /\ analysis.zScore < 200)
        => analysis.signal = "NEUTRAL"

PlainSignals == {"SHORT", "LONG"}

HasDetail(label) ==
    \E i \in 1..Len(analysis.confirmationDetails) :
        analysis.confirmationDetails[i] = label

\* C27: the signal of analyzeAsset is at most one class weaker than its z-score
\* allows: |z| >= 3.0 gives ULTRA or STRONG, 2.5 <= |z| < 3.0 gives STRONG or the
\* plain class, 2.0 <= |z| < 2.5 gives the plain class, and of the z-scores with
\* |z| >= 1.8 only those below 2.0 can give NEUTRAL; an ULTRA signal has the
\* reversal or the near-extreme confirmation
C27_AtMostOneClassWeaker ==
    (pc = "analyzed" /\ analysis # NULL) =>
        LET absZ == Abs(analysis.zScore)
            sig == analysis.signal
        IN  /\ absZ >= 300 => (IncludesULTRA(sig) \/ IncludesSTRONG(sig))
            /\ (absZ >= 250 /\ absZ < 300) => (IncludesSTRONG(sig) \/ sig \in PlainSignals)
            /\ (absZ >= 200 /\ absZ < 250) => sig \in PlainSignals
            /\ (absZ >= 180 /\ sig = "NEUTRAL") => absZ < 200
            /\ IncludesULTRA(sig) =>
                  \/ analysis.isFundingReversing
                  \/ HasDetail("Near historical extreme")

\* a z-score between 2.0 and 2.5 with the two threshold confirmations only
C27_Witness ==
    /\ pc = "analyzed"
    /\ analysis # NULL
    /\ Abs(analysis.zScore) >= 200
    /\ Abs(analysis.zScore) < 250
    /\ analysis.confirmations = 2
    /\ analysis.signal \in PlainSignals
    /\ ~analysis.isFundingReversing
    /\ ~HasDetail("Near historical extreme")

\* 0 for NEUTRAL, 1 for the plain class, 2 for STRONG, 3 for ULTRA
ClassOf(signal) == IF signal = "NEUTRAL" THEN 0 ELSE Strength(signal)

SideOf(signal) ==
    IF signal \in ShortSide THEN "SHORT"
    ELSE IF signal \in LongSide THEN "LONG" ELSE "NEUTRAL"

\* C28: on the same at-least-90 samples both analyzeAsset implementations compute
\* the same zScore; for |zScore| >= 2.0 their signals are on the same side and the
\* class of lib/analysis.ts is not more extreme than that of the route; for
\* |zScore| < 1.8 both are NEUTRAL
C28_ImplementationsAgree ==
    (pc = "compared" /\ Len(fundingRates) >= 90) =>
        /\ analysis # NULL
        /\ localAnalysis # NULL
        /\ analysis.zScore = localAnalysis.zScore
        /\ Abs(analysis.zScore) >= 200 =>
              /\ SideOf(analysis.signal) = SideOf(localAnalysis.signal)
              /\ SideOf(analysis.signal) # "NEUTRAL"
              /\ ClassOf(analysis.signal) <= ClassOf(localAnalysis.signal)
        /\ Abs(analysis.zScore) < 180 =>
              /\ analysis.signal = "NEUTRAL"
              /\ localAnalysis.signal = "NEUTRAL"

\* z = -3.0 without the near-extreme confirmation: STRONG_LONG by lib/analysis.ts,
\* ULTRA_LONG by the route
C28_Witness ==
    /\ pc = "compared"
    /\ Len(fundingRates) = 91
    /\ analysis # NULL
    /\ localAnalysis # NULL
    /\ analysis.zScore = -300
    /\ localAnalysis.zScore = -300
    /\ analysis.signal = "STRONG_LONG"
    /\ localAnalysis.signal = "ULTRA_LONG"

C30_PersistedAcrossReload ==
    [][(pc = "home_rerender" /\ pc' = "home_ready" /\ storedBefore # NULL)
          => (tradingState' = Parse(storedBefore) /\ storage' = storedBefore)]_vars

====
